---- MODULE Spec2Model ----
(***************************************************************************)
(* The PRXS registry ("Lighthouse") node: the in-memory registrations map  *)
(* and its inverted service index (guarded by r.mu), the replay guard      *)
(* (guarded by r.stakeMu), the register / find stream handler, the         *)
(* eviction loop, the startup restore from Redis and the stake verifier.   *)
(*                                                                         *)
(* Conventions.  A Go pointer that may be nil is a sequence of length at   *)
(* most one (Nil == <<>>, Some(x) == <<x>>).  A Go map is a function whose *)
(* DOMAIN is the set of keys present.  A Go string on which the code does  *)
(* character work (service names, find queries) is a sequence of           *)
(* one-character strings; identifiers that are only compared (peer ids,    *)
(* tx hashes) are TLA+ strings.  Every section of code between r.mu.Lock() *)
(* and r.mu.Unlock() is one action: the mutex makes it atomic for every    *)
(* other holder of r.mu, and so every state of the model is a state at a   *)
(* release of the state mutex.  Steps of a handler that touch only its own *)
(* locals are folded into the critical section that precedes them.         *)
(***************************************************************************)
EXTENDS Integers, Sequences, FiniteSets, TLC

VARIABLES
    phase,            \* "starting" (startRegistry before SetStreamHandler) or "serving"
    now,              \* time.Now(), in seconds since the process started
    Registrations,    \* RegistryNode.Registrations: peer id -> record
    ServiceIndex,     \* RegistryNode.ServiceIndex: service name -> list of peer ids
    seenStakeNonces,  \* RegistryNode.seenStakeNonces: set of "<tx>|<nonce>" keys
    streams,          \* one entry per handleStream goroutine slot
    storage,          \* RegistryNode.storage # nil (Redis configured)
    redisReg,         \* Redis keys registration:<peer id> -> JSON record
    redisSvc,         \* Redis sets service:<name> -> set of peer ids
    newOk,            \* history: replay key -> new registrations answered success:true
    sv,               \* one call of checkStakeValidity: its arguments and its result
    ext,              \* the vector index (configured? its points) and whether calls fail
    http,             \* the REST request being served, or the last one and its response
    lk,               \* the holders of r.mu and r.stakeMu and each thread's position
    life,             \* history of the process lifetimes: restarts, eviction passes
    agent             \* the stdin/stdout agent process: its pipes and its position

regVars == <<phase, now, Registrations, ServiceIndex, seenStakeNonces, streams,
             storage, redisReg, redisSvc, newOk>>

vars == <<regVars, sv, ext, http, lk, life, agent>>

(***************************************************************************)
(* Bounds of the model.                                                    *)
(***************************************************************************)
\* Seconds that pass in one step of the clock.
ClockStep == 91
\* Number of clock steps explored.
MaxTicks == 1
\* The same for the specification of process lifetimes (SpecLife).
LifeStep == 46
LifeTicks == 2
\* Number of restarts of the registry process explored.
MaxRestarts == 1

(***************************************************************************)
(* Program constants.                                                      *)
(***************************************************************************)
\* flag "min-stake", default 10.0
minStake == 10
\* gcLoop and RestoreAllRegistrations: 90*time.Second
StaleAfter == 90

(***************************************************************************)
(* Value universes.                                                        *)
(***************************************************************************)
Peers == {"p1", "p2"}
Streams == {1, 2}

NameMath == <<"m", "a", "t", "h">>
NameMath2 == <<"M", "a", "t", "h", "2">>
Names == {NameMath, NameMath2}

Queries == {<<>>, <<"M", "A", "T">>, <<"h", "2">>}

Nil == <<>>
Some(x) == <<x>>
Deref(p) == p[1]

\* Go maps as functions.
EmptyMap == <<>>
MapPut(m, k, v) == [x \in (DOMAIN m) \cup {k} |-> IF x = k THEN v ELSE m[x]]
MapDel(m, k) == [x \in (DOMAIN m) \ {k} |-> m[x]]

\* The elements of a list.
Range(seq) == {seq[i] : i \in 1..Len(seq)}

\* All enumerations of a finite set (Go's map iteration order is unspecified).
Orders(S) ==
    {f \in [1..Cardinality(S) -> S] : \A i, j \in 1..Cardinality(S) : i # j => f[i] # f[j]}

(***************************************************************************)
(* strings.ToLower and strings.Contains on the characters in use.          *)
(***************************************************************************)
LowerChar(c) ==
    CASE c = "M" -> "m"
      [] c = "A" -> "a"
      [] c = "T" -> "t"
      [] c = "H" -> "h"
      [] c = "X" -> "x"
      [] OTHER -> c

ToLower(s) == [i \in 1..Len(s) |-> LowerChar(s[i])]

Contains(s, substr) ==
    \E i \in 0..(Len(s) - Len(substr)) : SubSeq(s, i + 1, i + Len(substr)) = substr

(***************************************************************************)
(* Stake proofs and their verification.                                    *)
(***************************************************************************)
\* The payload that is hashed and signed: "%s|%f|%d|%d|%s".
Payload(proof) ==
    <<proof.TxHash, proof.Amount, proof.Nonce, proof.Timestamp, proof.ChainID>>

\* A signature is modelled by who made it and over which payload; a byte string
\* that is no signature at all has signer "".
SignBy(signer, payload) == [signer |-> signer, payload |-> payload]
GarbageSignature == [signer |-> "", payload |-> <<>>]

\* crypto.PubKey.Verify: (ok, err).  err # nil for bytes that are no signature.
VerifyErr(pubKey, payload, sig) == sig.signer = ""
VerifyOk(pubKey, payload, sig) == sig.signer = pubKey /\ sig.payload = payload

\* peer.ID.String()
PeerString(pid) == pid

ErrNil == "nil"
ErrStakeRequired == "stake proof required"
ErrStakeTooLow == "stake too low"
ErrStakerMismatch == "stake staker mismatch"
ErrMissingPubkey == "missing pubkey"
ErrVerifyFailed == "stake signature verify failed"
ErrSignatureInvalid == "stake signature invalid"
ErrReplay == "stake proof already used (replay detected)"
ErrUnknownMethod == "Unknown method"

\* A verifier that looks at the staker before the amount (sensitivity of C10).
checkStakeValidityStakerFirst(remote, proof, pubKey) ==
    IF proof = Nil THEN ErrStakeRequired
    ELSE IF Deref(proof).Staker # "" /\ Deref(proof).Staker # PeerString(remote)
        THEN ErrStakerMismatch
    ELSE IF Deref(proof).Amount < minStake THEN ErrStakeTooLow
    ELSE IF pubKey = Nil THEN ErrMissingPubkey
    ELSE IF VerifyErr(Deref(pubKey), Payload(Deref(proof)), Deref(proof).Signature)
        THEN ErrVerifyFailed
    ELSE IF ~VerifyOk(Deref(pubKey), Payload(Deref(proof)), Deref(proof).Signature)
        THEN ErrSignatureInvalid
    ELSE ErrNil

\* A verifier that gives no reason for a stake that is too low (sensitivity of C11).
checkStakeValidityNoReason(remote, proof, pubKey) ==
    IF proof = Nil THEN ErrStakeRequired
    ELSE IF Deref(proof).Amount < minStake THEN ""
    ELSE IF Deref(proof).Staker # "" /\ Deref(proof).Staker # PeerString(remote)
        THEN ErrStakerMismatch
    ELSE IF pubKey = Nil THEN ErrMissingPubkey
    ELSE IF VerifyErr(Deref(pubKey), Payload(Deref(proof)), Deref(proof).Signature)
        THEN ErrVerifyFailed
    ELSE IF ~VerifyOk(Deref(pubKey), Payload(Deref(proof)), Deref(proof).Signature)
        THEN ErrSignatureInvalid
    ELSE ErrNil

checkStakeValidity(remote, proof, pubKey) ==
    IF proof = Nil THEN ErrStakeRequired
    ELSE IF Deref(proof).Amount < minStake THEN ErrStakeTooLow
    ELSE IF Deref(proof).Staker # "" /\ Deref(proof).Staker # PeerString(remote)
        THEN ErrStakerMismatch
    ELSE IF pubKey = Nil THEN ErrMissingPubkey
    ELSE IF VerifyErr(Deref(pubKey), Payload(Deref(proof)), Deref(proof).Signature)
        THEN ErrVerifyFailed
    ELSE IF ~VerifyOk(Deref(pubKey), Payload(Deref(proof)), Deref(proof).Signature)
        THEN ErrSignatureInvalid
    ELSE ErrNil

\* r.Host.Peerstore().PubKey(remote): the transport has authenticated every
\* peer that opens a stream, so its key is in the peerstore.
PeerstorePubKey(remote) == Some(remote)

\* fmt.Sprintf("%s|%d", TxHash, Nonce): the nonce is rendered in digits, so the
\* text after the last "|" is the nonce and the key determines the pair.
ReplayKey(proof) == <<proof.TxHash, proof.Nonce>>

MkProof(signer, tx, nonce, amount, staker) ==
    LET body == [TxHash |-> tx, Staker |-> staker, Amount |-> amount, Nonce |-> nonce,
                 Timestamp |-> 0, ChainID |-> "c"]
    IN  [TxHash |-> tx, Staker |-> staker, Amount |-> amount, Nonce |-> nonce,
         Timestamp |-> 0, ChainID |-> "c", Signature |-> SignBy(signer, Payload(body))]

(***************************************************************************)
(* Records, requests and responses.                                        *)
(***************************************************************************)
AddrInfoOf(pid, addrs) == [ID |-> pid, Addrs |-> addrs]

\* RegistrationRecord
Record(lastSeen, card, proof, addrInfo) ==
    [LastSeen |-> lastSeen, ServiceCard |-> card, StakeProof |-> proof, AddrInfo |-> addrInfo]

Card(name) == [Name |-> name]

\* common.RegistryRequest; an omitted field holds Go's zero value.
Request(method, card, query, proof, info) ==
    [Method |-> method, Card |-> card, Query |-> query, StakeProof |-> proof,
     ProviderInfo |-> info]

ZeroRequest == Request("", Card(<<>>), <<>>, Nil, Nil)

\* common.RegistryResponse
Response(success, providers, error) ==
    [Success |-> success, Providers |-> providers, Error |-> error]

\* The stake proofs the peers of the model present.
ProofA(p) == MkProof(p, "tx1", 1, 10, PeerString(p))
ProofB(p) == MkProof(p, "tx2", 1, 10, "")
\* The transaction of ProofA with another nonce and a smaller amount.
ProofC(p) == MkProof(p, "tx1", 2, 5, PeerString(p))

\* The register requests peer p sends; the second peer sends the first and the
\* third of them only.
RegisterInputs(p) ==
    { Request("register", Card(NameMath),  <<>>, Some(ProofA(p)), Some(AddrInfoOf(p, "a1"))),
      Request("register", Card(NameMath2), <<>>, Some(ProofB(p)), Some(AddrInfoOf(p, "a1"))) }
    \cup
    IF p # "p1" THEN {}
    ELSE
    { Request("register", Card(NameMath2), <<>>, Some(ProofA(p)), Some(AddrInfoOf(p, "a2"))),
      Request("register", Card(NameMath2), <<>>, Some(ProofB(p)), Nil),
      Request("register", Card(NameMath),  <<>>, Some(ProofC(p)), Some(AddrInfoOf(p, "a1"))),
      Request("register", Card(NameMath),  <<>>, Nil,             Some(AddrInfoOf(p, "a1"))) }

(***************************************************************************)
(* Index helpers.                                                          *)
(***************************************************************************)
IndexList(index, serviceName) ==
    IF serviceName \in DOMAIN index THEN index[serviceName] ELSE <<>>

InList(list, pid) == \E i \in 1..Len(list) : list[i] = pid

addToIndex(index, pid, serviceName) ==
    LET list == IndexList(index, serviceName)
    IN  IF InList(list, pid) THEN index
        ELSE MapPut(index, serviceName, Append(list, pid))

removeFromIndex(index, pid, serviceName) ==
    LET list == IndexList(index, serviceName)
        keep(id) == id # pid
    IN  MapPut(index, serviceName, SelectSeq(list, keep))

(***************************************************************************)
(* Redis storage (storage.RedisStorage).  Every call the registry makes is *)
(* made while it holds r.mu.  A call that fails fails as a whole (the      *)
(* server is not reached), and no key expires.                             *)
(***************************************************************************)
\* A conversion that leaves out the stake proof (sensitivity of C17).
convertToStorageRecordNoProof(record) ==
    [LastSeen |-> record.LastSeen, ServiceCard |-> record.ServiceCard,
     StakeProof |-> Nil, AddrInfo |-> record.AddrInfo]

convertToStorageRecord(record) ==
    [LastSeen |-> record.LastSeen, ServiceCard |-> record.ServiceCard,
     StakeProof |-> record.StakeProof, AddrInfo |-> record.AddrInfo]

convertFromStorageRecord(record) ==
    [LastSeen |-> record.LastSeen, ServiceCard |-> record.ServiceCard,
     StakeProof |-> record.StakeProof, AddrInfo |-> record.AddrInfo]

\* json.Marshal / json.Unmarshal of a storage.RegistrationRecord: the value of a
\* registration key is the text of the fields in the order of the struct.
Marshal(record) ==
    <<record.LastSeen, record.ServiceCard.Name, record.StakeProof,
      record.AddrInfo.ID, record.AddrInfo.Addrs>>

Unmarshal(data) ==
    [LastSeen |-> data[1], ServiceCard |-> [Name |-> data[2]], StakeProof |-> data[3],
     AddrInfo |-> [ID |-> data[4], Addrs |-> data[5]]]

SvcMembers(svc, name) == IF name \in DOMAIN svc THEN svc[name] ELSE {}

\* A store that drops every write (sensitivity of C18).
SaveRegNever(on, reg, pid, record) == reg

\* SET registration:<pid>; SADD service:<name> pid
SaveReg(on, reg, pid, record) == IF on THEN MapPut(reg, pid, Marshal(record)) ELSE reg
SaveSvc(on, svc, pid, record) ==
    IF on THEN MapPut(svc, record.ServiceCard.Name,
                      SvcMembers(svc, record.ServiceCard.Name) \cup {pid})
    ELSE svc

\* DEL registration:<pid>; SREM service:<name> pid (Redis drops a set that empties)
DeleteReg(on, reg, pid) == IF on THEN MapDel(reg, pid) ELSE reg
DeleteSvc(on, svc, pid, serviceName) ==
    IF ~on THEN svc
    ELSE IF SvcMembers(svc, serviceName) \ {pid} = {} THEN MapDel(svc, serviceName)
    ELSE MapPut(svc, serviceName, svc[serviceName] \ {pid})

\* A restore that also skips a record that is exactly 90 s old (sensitivity of C16).
RestoreAllRegistrationsStrict(reg, t) ==
    LET fresh == {pid \in DOMAIN reg : ~(t - Unmarshal(reg[pid]).LastSeen >= StaleAfter)}
    IN  [pid \in fresh |-> Unmarshal(reg[pid])]

\* The records RestoreAllRegistrations returns at time t.  A registration key
\* expires 120 s after it was last written, which is when its record's
\* LastSeen was set; a key that has expired would be skipped as stale here, so
\* the result is the same whether or not it is still in the store.
RestoreAllRegistrations(reg, t) ==
    LET fresh == {pid \in DOMAIN reg : ~(t - Unmarshal(reg[pid]).LastSeen > StaleAfter)}
    IN  [pid \in fresh |-> Unmarshal(reg[pid])]

(***************************************************************************)
(* Stream handler slots.                                                   *)
(*   pc: "idle"; "heartbeat", "replay", "commit": a register request that  *)
(*   waits for r.mu, r.stakeMu, r.mu; "done": the response is written (or  *)
(*   the stream is closed without one).  existing is the part of the       *)
(*   record read under the first lock that the handler reads later (the    *)
(*   card and the proof of a record are never assigned after it is built). *)
(***************************************************************************)
Slot(pc, remotePeer, req, isRegistered, existing, isHeartbeat, resp) ==
    [pc |-> pc, remotePeer |-> remotePeer, req |-> req, isRegistered |-> isRegistered,
     existing |-> existing, isHeartbeat |-> isHeartbeat, resp |-> resp]

IdleSlot == Slot("idle", "", ZeroRequest, FALSE, Nil, FALSE, Nil)

Existing(record) == [ServiceCard |-> record.ServiceCard, StakeProof |-> record.StakeProof]

\* The response is written and the stream closed before any other thread of
\* the registry takes its next step: both touch the stream alone.
NoneDone == \A s \in Streams : streams[s].pc # "done"

\* A new stream takes the lowest free slot.
Free(s) ==
    /\ streams[s].pc = "idle"
    /\ \A t \in Streams : t < s => streams[t].pc # "idle"

(***************************************************************************)
(* The durable store a registry process may find at startup: none          *)
(* configured, or the records an earlier process saved.                    *)
(***************************************************************************)
EarlierRecord(p, name, age) ==
    Record(0 - age, Card(name), Some(ProofA(p)), AddrInfoOf(p, "a1"))

InitStores ==
    { [on |-> FALSE, reg |-> EmptyMap, svc |-> EmptyMap],
      [on |-> TRUE,
       reg |-> [p \in Peers |->
                   IF p = "p1" THEN Marshal(EarlierRecord(p, NameMath, StaleAfter))
                   ELSE Marshal(EarlierRecord(p, NameMath, StaleAfter + 1))],
       svc |-> MapPut(EmptyMap, NameMath, Peers)] }

\* No call of checkStakeValidity under observation.
SvIdle == [remote |-> "", proof |-> Nil, pubKey |-> Nil, called |-> FALSE, err |-> ErrNil]

\* The history at the start of the first process: no restart, no eviction pass.
\*   lastPass: the time of the latest pass and the peers it kept;
\*   evicted: the peers evicted in this lifetime, with the pair of their record;
\*   before: the registrations map of the process that was stopped, until the
\*           new process has restored; usedBefore: the replay guard of that process.
LifeStart ==
    [restarts |-> 0, lastPass |-> Nil, evicted |-> {}, before |-> Nil, usedBefore |-> {}]

\* The agent before it is started: nothing on its pipes.
AgentOff ==
    [pc |-> "off", stdin |-> <<>>, err |-> "", req |-> <<>>, decoded |-> <<>>,
     stdout |-> <<>>, logged |-> 0]

\* No vector index configured (r.qdrant = nil); the calls of the durable store
\* and of the vector index do not fail.
ExtNone == [qdrant |-> FALSE, points |-> {}, down |-> FALSE]

\* The threads that take the mutexes of the node: two handleStream goroutines,
\* the gcLoop goroutine, one REST handler, and startRegistry itself.
Handlers == {"h1", "h2"}

Threads == Handlers \cup {"gc", "api", "main"}

\* Both mutexes free, every thread before its first lock operation.
LkFree ==
    [mu |-> Nil, stakeMu |-> Nil,
     pc |-> [t \in Threads |-> "idle"],
     key |-> [t \in Handlers |-> Nil]]

RegInit ==
    /\ phase = "starting"
    /\ now = 0
    /\ Registrations = EmptyMap
    /\ ServiceIndex = EmptyMap
    /\ seenStakeNonces = {}
    /\ streams = [s \in Streams |-> IdleSlot]
    /\ newOk = EmptyMap
    /\ \E st \in InitStores :
        /\ storage = st.on
        /\ redisReg = st.reg
        /\ redisSvc = st.svc

Init ==
    /\ RegInit /\ sv = SvIdle /\ ext = ExtNone /\ http = Nil /\ lk = LkFree /\ life = LifeStart
    /\ agent = AgentOff

(***************************************************************************)
(* restoreStateFromRedis, called by startRegistry before the stream        *)
(* handler is set and before gcLoop starts.                                *)
(***************************************************************************)
RECURSIVE IndexAll(_, _, _)
IndexAll(index, records, order) ==
    IF order = <<>> THEN index
    ELSE IndexAll(addToIndex(index, Head(order), records[Head(order)].ServiceCard.Name),
                  records, Tail(order))

RestoreState ==
    /\ phase = "starting"
    /\ phase' = "serving"
    /\ IF storage
       THEN LET storageRecords == RestoreAllRegistrations(redisReg, now)
            IN  /\ Registrations' =
                       [pid \in DOMAIN storageRecords |->
                           convertFromStorageRecord(storageRecords[pid])]
                /\ \E order \in Orders(DOMAIN storageRecords) :
                       ServiceIndex' = IndexAll(ServiceIndex, storageRecords, order)
       ELSE UNCHANGED <<Registrations, ServiceIndex>>
    /\ UNCHANGED <<now, seenStakeNonces, streams, storage, redisReg,
                   redisSvc, newOk, sv, ext, http, lk, agent>>

Restore == RestoreState /\ UNCHANGED life

(***************************************************************************)
(* handleStream, method "register": the first critical section reads the   *)
(* peer's record; the handler then decides between heartbeat and new       *)
(* registration and, for a new registration, verifies the stake.           *)
(***************************************************************************)
\* A switch that matches the method without regard to case (sensitivity of C25).
RouteAnyCase(method) ==
    CASE method \in {"register", "Register"} -> "register"
      [] method \in {"find", "FIND"} -> "find"
      [] OTHER -> "default"

\* "switch req.Method": the case taken.
Route(method) ==
    CASE method = "register" -> "register"
      [] method = "find" -> "find"
      [] OTHER -> "default"

\* A discriminator that does not compare transaction hashes (sensitivity of C7).
IsHeartbeatAnyTx(isRegistered, existing, req) ==
    /\ isRegistered
    /\ Deref(existing).StakeProof # Nil
    /\ req.StakeProof # Nil

IsHeartbeat(isRegistered, existing, req) ==
    /\ isRegistered
    /\ Deref(existing).StakeProof # Nil
    /\ req.StakeProof # Nil
    /\ Deref(Deref(existing).StakeProof).TxHash = Deref(req.StakeProof).TxHash

RegisterBegin(s, p, req) ==
    /\ phase = "serving"
    /\ NoneDone
    /\ Free(s)
    /\ Route(req.Method) = "register"
    /\ LET isRegistered == p \in DOMAIN Registrations
           existing == IF isRegistered THEN Some(Existing(Registrations[p])) ELSE Nil
           err == checkStakeValidity(p, req.StakeProof, PeerstorePubKey(p))
       IN  streams' = [streams EXCEPT ![s] =
               IF IsHeartbeat(isRegistered, existing, req)
                   THEN Slot("heartbeat", p, req, isRegistered, existing, TRUE, Nil)
               ELSE IF err # ErrNil
                   THEN Slot("done", p, req, isRegistered, existing, FALSE,
                             Some(Response(FALSE, <<>>, err)))
               ELSE Slot("replay", p, req, isRegistered, existing, FALSE, Nil)]
    /\ UNCHANGED <<phase, now, Registrations, ServiceIndex, seenStakeNonces,
                   storage, redisReg, redisSvc, newOk, sv, ext, http, lk, life, agent>>

(***************************************************************************)
(* The heartbeat path: the second critical section.                        *)
(***************************************************************************)
\* A heartbeat that also installs the card of the request (sensitivity of C8).
HeartbeatEntryWithCard(entry, req, t) ==
    [entry EXCEPT !.LastSeen = t,
                  !.ServiceCard = req.Card,
                  !.AddrInfo = IF req.ProviderInfo # Nil THEN Deref(req.ProviderInfo) ELSE @]

HeartbeatEntry(entry, req, t) ==
    [entry EXCEPT !.LastSeen = t,
                  !.AddrInfo = IF req.ProviderInfo # Nil THEN Deref(req.ProviderInfo) ELSE @]

\* A call of the durable store reaches it: one is configured and it answers.
StoreUp == storage /\ ~ext.down

\* The same for the vector index.
VectorUp == ext.qdrant /\ ~ext.down

Heartbeat(s) ==
    LET sl == streams[s]
        p == sl.remotePeer
    IN  /\ sl.pc = "heartbeat"
        /\ NoneDone
        /\ IF p \in DOMAIN Registrations
           THEN LET entry == HeartbeatEntry(Registrations[p], sl.req, now)
                IN  /\ Registrations' = [Registrations EXCEPT ![p] = entry]
                    /\ redisReg' = SaveReg(StoreUp, redisReg, p, convertToStorageRecord(entry))
                    /\ redisSvc' = SaveSvc(StoreUp, redisSvc, p, convertToStorageRecord(entry))
                    /\ streams' = [streams EXCEPT ![s].pc = "done",
                                                  ![s].resp = Some(Response(TRUE, <<>>, ""))]
           ELSE /\ UNCHANGED <<Registrations, redisReg, redisSvc>>
                /\ streams' = [streams EXCEPT ![s].pc = "done",
                                              ![s].resp = Some(Response(FALSE, <<>>, ""))]
        /\ UNCHANGED <<phase, now, ServiceIndex, seenStakeNonces, storage,
                       newOk, sv, ext, http, lk, life, agent>>

(***************************************************************************)
(* The new-registration path: the replay guard under r.stakeMu, then the   *)
(* third critical section under r.mu.                                      *)
(***************************************************************************)
\* A guard that never finds a key (sensitivity of C3).
SeenKeyNever(seen, key) == FALSE
\* A guard that finds a key only once some other key is present (sensitivity of C4).
SeenKeyAmongOthers(seen, key) == key \in seen /\ seen # {key}

\* A guard that counts a key only while a record carries its pair, and so
\* forgets the pair of an evicted record (sensitivity of C14).
SeenKeyOfLiveRecord(seen, key) ==
    /\ key \in seen
    /\ \E p \in DOMAIN Registrations :
           ReplayKey(Deref(Registrations[p].StakeProof)) = key

\* A guard that also knows the keys of the process that ran before the
\* restart (sensitivity of C19).
SeenKeyOrUsedBefore(seen, key) == key \in seen \/ key \in life.usedBefore

SeenKey(seen, key) == key \in seen

ReplayCheck(s) ==
    LET sl == streams[s]
        key == ReplayKey(Deref(sl.req.StakeProof))
    IN  /\ sl.pc = "replay"
        /\ NoneDone
        /\ IF SeenKey(seenStakeNonces, key)
           THEN /\ streams' = [streams EXCEPT ![s].pc = "done",
                                              ![s].resp = Some(Response(FALSE, <<>>, ErrReplay))]
                /\ UNCHANGED seenStakeNonces
           ELSE /\ seenStakeNonces' = seenStakeNonces \cup {key}
                /\ streams' = [streams EXCEPT ![s].pc = "commit"]
        /\ UNCHANGED <<phase, now, Registrations, ServiceIndex, storage, redisReg, redisSvc,
                       newOk, sv, ext, http, lk, life, agent>>

Count(m, k) == IF k \in DOMAIN m THEN m[k] ELSE 0

\* "Remove old index entry if service name changed"
DropOldName(index, sl) ==
    IF sl.isRegistered /\ Deref(sl.existing).ServiceCard.Name # sl.req.Card.Name
    THEN removeFromIndex(index, sl.remotePeer, Deref(sl.existing).ServiceCard.Name)
    ELSE index

\* A commit that drops the record of a peer that sends no provider_info
\* (sensitivity of C15).
InstallRecordOrDrop(regs, p, req, t) ==
    IF req.ProviderInfo # Nil
    THEN MapPut(regs, p, Record(t, req.Card, req.StakeProof, Deref(req.ProviderInfo)))
    ELSE MapDel(regs, p)

\* "if req.ProviderInfo != nil { ... r.Registrations[remotePeer] = newRecord"
InstallRecord(regs, p, req, t) ==
    IF req.ProviderInfo # Nil
    THEN MapPut(regs, p, Record(t, req.Card, req.StakeProof, Deref(req.ProviderInfo)))
    ELSE regs

\* A handler that gives up when a call of the store fails (sensitivity of C22).
GoesOnIfNil(failed) == ~failed

\* "if err := r.storage.SaveRegistration(...); err != nil { log.Printf(...) }":
\* the handler logs the error and goes on to the next statement.
GoesOn(failed) == TRUE

\* QdrantClient.UpsertService: the point of a peer and a service name, with
\* the payload semantic search reads.
UpsertService(points, pid, name) ==
    points \cup {[peer_id |-> PeerString(pid), service_name |-> name]}

\* handleStream, new registration from r.mu.Lock() to the response: the
\* record and the index entry, the save (an error is logged), and, outside
\* the mutex, the upsert into the vector index when one is configured.
Commit(s) ==
    LET sl == streams[s]
        p == sl.remotePeer
        req == sl.req
        index1 == DropOldName(ServiceIndex, sl)
        saveFailed == storage /\ ext.down /\ req.ProviderInfo # Nil
    IN  /\ sl.pc = "commit"
        /\ NoneDone
        /\ Registrations' = InstallRecord(Registrations, p, req, now)
        /\ IF req.ProviderInfo # Nil
           THEN LET newRecord == Registrations'[p]
                IN  /\ ServiceIndex' = addToIndex(index1, p, req.Card.Name)
                    /\ redisReg' = SaveReg(StoreUp, redisReg, p, convertToStorageRecord(newRecord))
                    /\ redisSvc' = SaveSvc(StoreUp, redisSvc, p, convertToStorageRecord(newRecord))
           ELSE /\ ServiceIndex' = index1
                /\ UNCHANGED <<redisReg, redisSvc>>
        /\ streams' = [streams EXCEPT ![s].pc = "done",
                                      ![s].resp = Some(Response(GoesOn(saveFailed), <<>>, ""))]
        /\ ext' = [ext EXCEPT !.points = IF GoesOn(saveFailed) /\ VectorUp
                                         THEN UpsertService(@, p, req.Card.Name) ELSE @]
        /\ newOk' = MapPut(newOk, ReplayKey(Deref(req.StakeProof)),
                            Count(newOk, ReplayKey(Deref(req.StakeProof))) + 1)
        /\ UNCHANGED <<phase, now, seenStakeNonces, storage, sv, http, lk, life, agent>>

(***************************************************************************)
(* handleStream, method "find": one critical section.  The names of the    *)
(* index are visited in the order Go's map iteration happens to give.      *)
(***************************************************************************)
RECURSIVE CollectAddrInfo(_, _)
CollectAddrInfo(regs, peerIDs) ==
    IF peerIDs = <<>> THEN <<>>
    ELSE (IF Head(peerIDs) \in DOMAIN regs THEN <<regs[Head(peerIDs)].AddrInfo>> ELSE <<>>)
         \o CollectAddrInfo(regs, Tail(peerIDs))

RECURSIVE FindResults(_, _, _, _)
FindResults(regs, index, query, order) ==
    IF order = <<>> THEN <<>>
    ELSE (IF Contains(ToLower(Head(order)), query)
          THEN CollectAddrInfo(regs, index[Head(order)]) ELSE <<>>)
         \o FindResults(regs, index, query, Tail(order))

\* A lookup that counts as a sign of life of the peers it finds (sensitivity
\* of C27).
LookupRefreshing(regs, pids, t) ==
    [p \in DOMAIN regs |-> IF p \in pids THEN [regs[p] EXCEPT !.LastSeen = t] ELSE regs[p]]

\* The registrations map after "reg, ok := r.Registrations[pid]" for the peers
\* pids, or after a range over it: reading a Go map, and reading the fields of
\* the records it points to, writes nothing.
Lookup(regs, pids, t) == regs

\* The peers the inverted index lists.
ListedPeers(index) == UNION {Range(index[n]) : n \in DOMAIN index}

Find(s, q) ==
    /\ phase = "serving"
    /\ NoneDone
    /\ Free(s)
    /\ Registrations' = Lookup(Registrations, ListedPeers(ServiceIndex), now)
    /\ \E order \in Orders(DOMAIN ServiceIndex) :
        streams' = [streams EXCEPT ![s] =
            Slot("done", "", Request("find", Card(<<>>), q, Nil, Nil), FALSE, Nil, FALSE,
                 Some(Response(TRUE,
                               FindResults(Registrations, ServiceIndex, ToLower(q), order),
                               "")))]
    /\ UNCHANGED <<phase, now, ServiceIndex, seenStakeNonces,
                   storage, redisReg, redisSvc, newOk, sv, ext, http, lk, life, agent>>

\* Any other method.
UnknownMethod(s) ==
    /\ phase = "serving"
    /\ NoneDone
    /\ Free(s)
    /\ streams' = [streams EXCEPT ![s] =
            Slot("done", "", Request("ping", Card(<<>>), <<>>, Nil, Nil), FALSE, Nil, FALSE,
                 Some(Response(FALSE, <<>>, ErrUnknownMethod)))]
    /\ UNCHANGED <<phase, now, Registrations, ServiceIndex, seenStakeNonces,
                   storage, redisReg, redisSvc, newOk, sv, ext, http, lk, life, agent>>

\* A handler that answers a request it could not decode (sensitivity of C26).
WrittenAlways(decoded, resp) == Some(resp)

\* What handleStream has written on the stream when it returns: the response,
\* unless Decode failed, in which case it returns before it declares one.
Written(decoded, resp) == IF decoded THEN Some(resp) ELSE Nil

\* The request does not decode: the handler returns, the deferred Close runs.
Malformed(s) ==
    /\ phase = "serving"
    /\ NoneDone
    /\ Free(s)
    /\ streams' = [streams EXCEPT ![s] =
            Slot("done", "", ZeroRequest, FALSE, Nil, FALSE,
                 Written(FALSE, Response(FALSE, <<>>, "")))]
    /\ UNCHANGED <<phase, now, Registrations, ServiceIndex, seenStakeNonces,
                   storage, redisReg, redisSvc, newOk, sv, ext, http, lk, life, agent>>

\* The response is flushed, handleStream returns and the stream is closed.
Close(s) ==
    /\ streams[s].pc = "done"
    /\ streams' = [streams EXCEPT ![s] = IdleSlot]
    /\ UNCHANGED <<phase, now, Registrations, ServiceIndex, seenStakeNonces,
                   storage, redisReg, redisSvc, newOk, sv, ext, http, lk, life, agent>>

(***************************************************************************)
(* gcLoop: one pass, one critical section.                                 *)
(***************************************************************************)
\* A pass that also evicts a record that is exactly 90 s old (sensitivity of C12).
StaleAtThreshold(record, t) == t - record.LastSeen >= StaleAfter

Stale(record, t) == t - record.LastSeen > StaleAfter

RECURSIVE PruneIndex(_, _, _)
PruneIndex(index, regs, dead) ==
    IF dead = {} THEN index
    ELSE LET pid == CHOOSE x \in dead : TRUE
         IN  PruneIndex(removeFromIndex(index, pid, regs[pid].ServiceCard.Name),
                        regs, dead \ {pid})

RECURSIVE PruneSvc(_, _, _, _)
PruneSvc(on, svc, regs, dead) ==
    IF dead = {} THEN svc
    ELSE LET pid == CHOOSE x \in dead : TRUE
         IN  PruneSvc(on, DeleteSvc(on, svc, pid, regs[pid].ServiceCard.Name),
                      regs, dead \ {pid})

GcSweep ==
    LET dead == {pid \in DOMAIN Registrations : Stale(Registrations[pid], now)}
    IN  /\ phase = "serving"
        /\ NoneDone
        /\ Registrations' = [pid \in (DOMAIN Registrations) \ dead |-> Registrations[pid]]
        /\ ServiceIndex' = PruneIndex(ServiceIndex, Registrations, dead)
        /\ redisReg' = IF StoreUp THEN [pid \in (DOMAIN redisReg) \ dead |-> redisReg[pid]]
                       ELSE redisReg
        /\ redisSvc' = PruneSvc(StoreUp, redisSvc, Registrations, dead)
        /\ UNCHANGED <<phase, now, seenStakeNonces, streams, storage, newOk, sv, ext,
                       http, lk, agent>>

GcPass == GcSweep /\ UNCHANGED life

\* Time passes.
Tick ==
    /\ phase = "serving"
    /\ NoneDone
    /\ now < MaxTicks * ClockStep
    /\ now' = now + ClockStep
    /\ UNCHANGED <<phase, Registrations, ServiceIndex, seenStakeNonces, streams,
                   storage, redisReg, redisSvc, newOk, sv, ext, http, lk, life, agent>>

Next ==
    \/ Restore
    \/ \E s \in Streams, p \in Peers : \E req \in RegisterInputs(p) : RegisterBegin(s, p, req)
    \/ \E s \in Streams : Heartbeat(s)
    \/ \E s \in Streams : ReplayCheck(s)
    \/ \E s \in Streams : Commit(s)
    \/ \E s \in Streams, q \in Queries : Find(s, q)
    \/ \E s \in Streams : UnknownMethod(s)
    \/ \E s \in Streams : Malformed(s)
    \/ \E s \in Streams : Close(s)
    \/ GcPass
    \/ Tick

Spec == Init /\ [][Next]_vars

(***************************************************************************)
(* Process lifetimes (SpecLife): the registry with a finer clock, with a   *)
(* history of its eviction passes, and with restarts.  A restart stops the *)
(* process (its memory and its streams are gone, the durable store stays)  *)
(* and runs startRegistry again.  One peer sends register requests; the    *)
(* other is known from the store the first process finds.                  *)
(***************************************************************************)
LifePeer == "p1"

LifeInputs ==
    { Request("register", Card(NameMath), <<>>, Some(ProofA(LifePeer)),
              Some(AddrInfoOf(LifePeer, "a1"))),
      Request("register", Card(NameMath2), <<>>, Some(ProofB(LifePeer)),
              Some(AddrInfoOf(LifePeer, "a1"))) }

\* The store at the start: none, or the record of the first peer, 90 s old,
\* and that of the second, one clock step old.
LifeStores ==
    { [on |-> FALSE, reg |-> EmptyMap, svc |-> EmptyMap],
      [on |-> TRUE,
       reg |-> [p \in Peers |->
                   IF p = LifePeer THEN Marshal(EarlierRecord(p, NameMath, StaleAfter))
                   ELSE Marshal(EarlierRecord(p, NameMath, LifeStep))],
       svc |-> MapPut(EmptyMap, NameMath, Peers)] }

InitLife ==
    /\ phase = "starting"
    /\ now = 0
    /\ Registrations = EmptyMap
    /\ ServiceIndex = EmptyMap
    /\ seenStakeNonces = {}
    /\ streams = [s \in Streams |-> IdleSlot]
    /\ newOk = EmptyMap
    /\ \E st \in LifeStores :
        /\ storage = st.on
        /\ redisReg = st.reg
        /\ redisSvc = st.svc
    /\ sv = SvIdle
    /\ ext = ExtNone /\ http = Nil /\ lk = LkFree
    /\ life = LifeStart
    /\ agent = AgentOff

Elapse ==
    /\ phase = "serving"
    /\ NoneDone
    /\ now < LifeTicks * LifeStep
    /\ now' = now + LifeStep
    /\ UNCHANGED <<phase, Registrations, ServiceIndex, seenStakeNonces, streams,
                   storage, redisReg, redisSvc, newOk, sv, ext, http, lk, life, agent>>

\* An eviction pass, entered in the history.
EvictionPass ==
    /\ GcSweep
    /\ life' = [life EXCEPT
           !.lastPass = Some([at |-> now, kept |-> DOMAIN Registrations']),
           !.evicted = @ \cup
               {<<pid, ReplayKey(Deref(Registrations[pid].StakeProof))>> :
                    pid \in (DOMAIN Registrations) \ (DOMAIN Registrations')}]

\* The process stops and a new one is constructed (startRegistry up to the
\* construction of the RegistryNode); the store configuration is the same.
Restart ==
    /\ phase = "serving"
    /\ NoneDone
    /\ life.restarts < MaxRestarts
    /\ phase' = "starting"
    /\ Registrations' = EmptyMap
    /\ ServiceIndex' = EmptyMap
    /\ seenStakeNonces' = {}
    /\ streams' = [s \in Streams |-> IdleSlot]
    /\ newOk' = EmptyMap
    /\ life' = [restarts |-> life.restarts + 1, lastPass |-> Nil, evicted |-> {},
                before |-> Some(Registrations), usedBefore |-> seenStakeNonces]
    /\ UNCHANGED <<now, storage, redisReg, redisSvc, sv, ext, http, lk, agent>>

\* restoreStateFromRedis in the new process.
StartupRestore ==
    /\ RestoreState
    /\ life' = [life EXCEPT !.before = Nil]

NextLife ==
    \/ StartupRestore
    \/ \E s \in Streams : \E req \in LifeInputs : RegisterBegin(s, LifePeer, req)
    \/ \E s \in Streams : Heartbeat(s)
    \/ \E s \in Streams : ReplayCheck(s)
    \/ \E s \in Streams : Commit(s)
    \/ \E s \in Streams : Close(s)
    \/ EvictionPass
    \/ Elapse
    \/ Restart

SpecLife == InitLife /\ [][NextLife]_vars

(***************************************************************************)
(* The stake verifier on its own: one call of checkStakeValidity on every  *)
(* combination of a remote peer, a proof (absent; amount below, at, above  *)
(* the minimum; staker empty, the peer, another peer; signed by the peer   *)
(* or by another peer over the proof's payload, by the peer over another   *)
(* payload, or not a signature) and a peerstore with or without the key.   *)
(***************************************************************************)
StakeSignatures(remote, body) ==
    {SignBy(k, Payload(body)) : k \in Peers}
        \cup {SignBy(remote, Payload([body EXCEPT !.Nonce = @ + 1])), GarbageSignature}

StakeBodies ==
    { [TxHash |-> "tx1", Staker |-> staker, Amount |-> amount, Nonce |-> 1,
       Timestamp |-> 0, ChainID |-> "c"] :
        staker \in {""} \cup Peers, amount \in {minStake - 1, minStake, minStake + 1} }

StakeInputs(remote) ==
    {Nil} \cup
    UNION { { Some([TxHash |-> body.TxHash, Staker |-> body.Staker, Amount |-> body.Amount,
                    Nonce |-> body.Nonce, Timestamp |-> body.Timestamp,
                    ChainID |-> body.ChainID, Signature |-> sig]) :
                sig \in StakeSignatures(remote, body) } : body \in StakeBodies }

InitStake ==
    /\ RegInit
    /\ ~storage
    /\ \E remote \in Peers : \E proof \in StakeInputs(remote), pubKey \in {Nil, Some(remote)} :
           sv = [remote |-> remote, proof |-> proof, pubKey |-> pubKey,
                 called |-> FALSE, err |-> ErrNil]
    /\ ext = ExtNone /\ http = Nil /\ lk = LkFree
    /\ life = LifeStart
    /\ agent = AgentOff

VerifyStake ==
    /\ ~sv.called
    /\ sv' = [sv EXCEPT !.called = TRUE,
                        !.err = checkStakeValidity(sv.remote, sv.proof, sv.pubKey)]
    /\ UNCHANGED <<regVars, ext, http, lk, life, agent>>

NextStake == VerifyStake

SpecStake == InitStake /\ [][NextStake]_vars

(***************************************************************************)
(* Failing collaborators (SpecFail): the registry with a durable store and *)
(* a vector index that stop answering and answer again at any moment.  One *)
(* peer sends register requests on one stream at a time; a second peer is  *)
(* known from the store.                                                   *)
(***************************************************************************)
InitFail ==
    /\ phase = "starting"
    /\ now = 0
    /\ Registrations = EmptyMap
    /\ ServiceIndex = EmptyMap
    /\ seenStakeNonces = {}
    /\ streams = [s \in Streams |-> IdleSlot]
    /\ newOk = EmptyMap
    /\ \E st \in LifeStores :
        /\ st.on
        /\ storage = st.on
        /\ redisReg = st.reg
        /\ redisSvc = st.svc
    /\ sv = SvIdle
    /\ \E down \in BOOLEAN : ext = [qdrant |-> TRUE, points |-> {}, down |-> down]
    /\ http = Nil
    /\ lk = LkFree
    /\ life = LifeStart
    /\ agent = AgentOff

\* The store and the vector index stop answering, or answer again.
Outage ==
    /\ phase = "serving"
    /\ NoneDone
    /\ ext' = [ext EXCEPT !.down = ~@]
    /\ UNCHANGED <<regVars, sv, http, lk, life, agent>>

NextFail ==
    \/ Restore
    \/ \E req \in LifeInputs : RegisterBegin(1, LifePeer, req)
    \/ Heartbeat(1)
    \/ ReplayCheck(1)
    \/ Commit(1)
    \/ Close(1)
    \/ GcPass
    \/ Elapse
    \/ Outage

SpecFail == InitFail /\ [][NextFail]_vars

(***************************************************************************)
(* The REST API: each handler is one critical section under r.mu that      *)
(* builds its JSON body from the registrations map and the inverted index. *)
(* Maps are visited in the order Go's map iteration happens to give.       *)
(***************************************************************************)
\* getAllServices: "view[name] = append(view[name], reg.AddrInfo)"
RECURSIVE GroupByName(_, _, _)
GroupByName(view, regs, order) ==
    IF order = <<>> THEN view
    ELSE LET reg == regs[Head(order)]
             name == reg.ServiceCard.Name
         IN  GroupByName(MapPut(view, name, Append(IndexList(view, name), reg.AddrInfo)),
                         regs, Tail(order))

getAllServices(regs, order) ==
    LET view == GroupByName(EmptyMap, regs, order)
    IN  [status |-> "OK", services |-> view, count |-> Cardinality(DOMAIN view)]

\* getAllServicesFull: the card of the first record visited under a name, and
\* the addr_info of every record under it.
RECURSIVE GroupFull(_, _, _)
GroupFull(view, regs, order) ==
    IF order = <<>> THEN view
    ELSE LET reg == regs[Head(order)]
             name == reg.ServiceCard.Name
             entry == IF name \in DOMAIN view THEN view[name]
                      ELSE [card |-> reg.ServiceCard, providers |-> <<>>]
         IN  GroupFull(MapPut(view, name,
                              [entry EXCEPT !.providers = Append(@, reg.AddrInfo)]),
                       regs, Tail(order))

getAllServicesFull(regs, order) ==
    LET view == GroupFull(EmptyMap, regs, order)
    IN  [status |-> "OK", services |-> view, count |-> Cardinality(DOMAIN view)]

\* searchServices: a name gets an entry once a listed peer with a record is found.
RECURSIVE SearchResults(_, _, _, _, _)
SearchResults(results, regs, index, queryLower, order) ==
    IF order = <<>> THEN results
    ELSE LET name == Head(order)
             found == CollectAddrInfo(regs, index[name])
         IN  SearchResults(IF Contains(ToLower(name), queryLower) /\ found # <<>>
                           THEN MapPut(results, name, found) ELSE results,
                           regs, index, queryLower, Tail(order))

searchServices(regs, index, query, order) ==
    IF query = <<>> THEN [status |-> "BadRequest"]
    ELSE LET results == SearchResults(EmptyMap, regs, index, ToLower(query), order)
         IN  [status |-> "OK", query |-> query, services |-> results,
              count |-> Cardinality(DOMAIN results)]

getServiceByName(regs, index, serviceName) ==
    LET providers == CollectAddrInfo(regs, IndexList(index, serviceName))
    IN  IF Len(providers) = 0 THEN [status |-> "NotFound"]
        ELSE [status |-> "OK", service |-> serviceName, providers |-> providers,
              count |-> Len(providers)]

(***************************************************************************)
(* Two streams of one peer (SpecRace): a registered peer opens two streams *)
(* with register requests, which the handlers serve in every interleaving  *)
(* of their critical sections.  What was written on a stream is kept after *)
(* the stream is closed, and no further stream is opened.  The peer's      *)
(* record comes from an earlier registration (its pair is in the replay    *)
(* guard) or from the durable store at startup (the guard is empty).       *)
(***************************************************************************)
RacePeer == "p1"

RaceRecord == Record(0, Card(NameMath), Some(ProofA(RacePeer)), AddrInfoOf(RacePeer, "a1"))

\* The replay guard when the two streams are opened.
RaceSeen == IF storage THEN {} ELSE {ReplayKey(ProofA(RacePeer))}

InitRace ==
    /\ now = 0
    /\ streams = [s \in Streams |-> IdleSlot]
    /\ newOk = EmptyMap
    /\ redisSvc = EmptyMap
    /\ \/ /\ phase = "serving"
          /\ storage = FALSE
          /\ redisReg = EmptyMap
          /\ Registrations = MapPut(EmptyMap, RacePeer, RaceRecord)
          /\ ServiceIndex = MapPut(EmptyMap, NameMath, <<RacePeer>>)
          /\ seenStakeNonces = {ReplayKey(ProofA(RacePeer))}
       \/ /\ phase = "starting"
          /\ storage = TRUE
          /\ redisReg = MapPut(EmptyMap, RacePeer, Marshal(RaceRecord))
          /\ Registrations = EmptyMap
          /\ ServiceIndex = EmptyMap
          /\ seenStakeNonces = {}
    /\ sv = SvIdle
    /\ ext = ExtNone /\ http = Nil /\ lk = LkFree
    /\ life = LifeStart
    /\ agent = AgentOff

\* The response is flushed and the stream closed; the slot keeps the exchange.
Retire(s) ==
    /\ streams[s].pc = "done"
    /\ streams' = [streams EXCEPT ![s].pc = "closed"]
    /\ UNCHANGED <<phase, now, Registrations, ServiceIndex, seenStakeNonces,
                   storage, redisReg, redisSvc, newOk, sv, ext, http, lk, life, agent>>

NextRace ==
    \/ Restore
    \/ \E s \in Streams : \E req \in RegisterInputs(RacePeer) : RegisterBegin(s, RacePeer, req)
    \/ \E s \in Streams : Heartbeat(s)
    \/ \E s \in Streams : ReplayCheck(s)
    \/ \E s \in Streams : Commit(s)
    \/ \E s \in Streams : Retire(s)

SpecRace == InitRace /\ [][NextRace]_vars

\* handleStream on a register request with no other stream open: the state of
\* the peer (its record, if any, and the replay guard) and the response after it.
Serve(st, p, req, t) ==
    LET isRegistered == st.rec # Nil
        existing == IF isRegistered THEN Some(Existing(Deref(st.rec))) ELSE Nil
        err == checkStakeValidity(p, req.StakeProof, PeerstorePubKey(p))
        key == ReplayKey(Deref(req.StakeProof))
    IN  IF IsHeartbeat(isRegistered, existing, req)
            THEN [rec |-> Some(HeartbeatEntry(Deref(st.rec), req, t)), seen |-> st.seen,
                  resp |-> Response(TRUE, <<>>, "")]
        ELSE IF err # ErrNil
            THEN [rec |-> st.rec, seen |-> st.seen, resp |-> Response(FALSE, <<>>, err)]
        ELSE IF SeenKey(st.seen, key)
            THEN [rec |-> st.rec, seen |-> st.seen, resp |-> Response(FALSE, <<>>, ErrReplay)]
        ELSE [rec |-> IF req.ProviderInfo # Nil
                      THEN Some(Record(t, req.Card, req.StakeProof, Deref(req.ProviderInfo)))
                      ELSE st.rec,
              seen |-> st.seen \cup {key},
              resp |-> Response(TRUE, <<>>, "")]

\* peer.Decode of the peer_id of a payload
PeerDecode(str) == IF str \in Peers THEN Some(str) ELSE Nil

\* A cross-reference that does not compare the service name of the hit with
\* that of the record (sensitivity of C28).
CrossReferenceAnyName(hit, regs) ==
    LET pid == PeerDecode(hit.peer_id)
    IN  /\ hit.service_name # <<>> /\ hit.peer_id # ""
        /\ pid # Nil
        /\ Deref(pid) \in DOMAIN regs

\* semanticSearchServices, the tests on one hit: both payload fields are set,
\* the peer id decodes, and the peer has a record with the hit's service name.
CrossReference(hit, regs) ==
    LET pid == PeerDecode(hit.peer_id)
    IN  /\ hit.service_name # <<>> /\ hit.peer_id # ""
        /\ pid # Nil
        /\ Deref(pid) \in DOMAIN regs
        /\ regs[Deref(pid)].ServiceCard.Name = hit.service_name

\* semanticSearchServices, under r.mu: the hits that pass, in the order of the
\* search, each with the card and the addr_info of the peer's record.
RECURSIVE Project(_, _)
Project(hits, regs) ==
    IF hits = <<>> THEN <<>>
    ELSE LET hit == Head(hits)
             reg == regs[Deref(PeerDecode(hit.peer_id))]
         IN  (IF CrossReference(hit, regs)
              THEN <<[service_name |-> hit.service_name,
                      card |-> reg.ServiceCard,
                      providers |-> <<reg.AddrInfo>>]>>
              ELSE <<>>) \o Project(Tail(hits), regs)

(***************************************************************************)
(* The query surfaces (SpecApi): one peer registers, re-registers and is   *)
(* evicted, on one stream at a time, while find requests, requests with    *)
(* other methods, undecodable requests and REST requests are served.  One  *)
(* REST request is served at a time; semantic search is two steps, the     *)
(* search in the vector index and, under r.mu, the projection of its hits. *)
(***************************************************************************)
\* Most hits a search returns (its parameter k).
MaxHits == 2

\* A point of the collection that no registry wrote: it has no peer_id.
ForeignPoint == [peer_id |-> "", service_name |-> NameMath]

\* QdrantClient.Search: up to k of the points, in the order of their scores.
SearchHits(points, k) ==
    UNION {Orders(S) : S \in {T \in SUBSET (points \cup {ForeignPoint}) : Cardinality(T) <= k}}

\* The register requests of the peer, and the same with the method spelled
\* otherwise or with another method.
ApiFrames ==
    LifeInputs \cup
    {[req EXCEPT !.Method = m] : req \in LifeInputs, m \in {"Register", "unregister", ""}}

InitApi ==
    /\ phase = "starting"
    /\ now = 0
    /\ Registrations = EmptyMap
    /\ ServiceIndex = EmptyMap
    /\ seenStakeNonces = {}
    /\ streams = [s \in Streams |-> IdleSlot]
    /\ newOk = EmptyMap
    /\ \E st \in LifeStores :
        /\ st.on
        /\ storage = st.on
        /\ redisReg = st.reg
        /\ redisSvc = st.svc
    /\ sv = SvIdle
    /\ ext = [qdrant |-> TRUE, points |-> {}, down |-> FALSE]
    /\ http = Nil
    /\ lk = LkFree
    /\ life = LifeStart
    /\ agent = AgentOff

\* handleStream, "default": the method is neither "register" nor "find".
OtherMethod(s, p, req) ==
    /\ phase = "serving"
    /\ NoneDone
    /\ Free(s)
    /\ Route(req.Method) = "default"
    /\ streams' = [streams EXCEPT ![s] =
            Slot("done", p, req, FALSE, Nil, FALSE,
                 Written(TRUE, Response(FALSE, <<>>, ErrUnknownMethod)))]
    /\ UNCHANGED <<phase, now, Registrations, ServiceIndex, seenStakeNonces,
                   storage, redisReg, redisSvc, newOk, sv, ext, http, lk, life, agent>>

\* No REST request is being served.
ApiIdle == IF http = Nil THEN TRUE ELSE Deref(http).pc = "done"

\* What a REST handler leaves alone besides the registrations map.
apiRest == <<phase, now, ServiceIndex, seenStakeNonces, streams, storage, redisReg,
             redisSvc, newOk, sv, ext, lk, life, agent>>

\* GET /api/v1/services
GetAllServices ==
    /\ phase = "serving"
    /\ ApiIdle
    /\ Registrations' = Lookup(Registrations, DOMAIN Registrations, now)
    /\ \E order \in Orders(DOMAIN Registrations) :
           http' = Some([endpoint |-> "services", pc |-> "done",
                         body |-> getAllServices(Registrations, order)])
    /\ UNCHANGED apiRest

\* GET /api/v1/services_full
GetAllServicesFull ==
    /\ phase = "serving"
    /\ ApiIdle
    /\ Registrations' = Lookup(Registrations, DOMAIN Registrations, now)
    /\ \E order \in Orders(DOMAIN Registrations) :
           http' = Some([endpoint |-> "services_full", pc |-> "done",
                         body |-> getAllServicesFull(Registrations, order)])
    /\ UNCHANGED apiRest

\* GET /api/v1/services/search?q=
SearchServices(q) ==
    /\ phase = "serving"
    /\ ApiIdle
    /\ Registrations' = Lookup(Registrations, ListedPeers(ServiceIndex), now)
    /\ \E order \in Orders(DOMAIN ServiceIndex) :
           http' = Some([endpoint |-> "search", pc |-> "done",
                         body |-> searchServices(Registrations, ServiceIndex, q, order)])
    /\ UNCHANGED apiRest

\* GET /api/v1/services/:name
GetServiceByName(name) ==
    /\ phase = "serving"
    /\ ApiIdle
    /\ Registrations' = Lookup(Registrations, Range(IndexList(ServiceIndex, name)), now)
    /\ http' = Some([endpoint |-> "by_name", pc |-> "done",
                     body |-> getServiceByName(Registrations, ServiceIndex, name)])
    /\ UNCHANGED apiRest

\* GET /api/v1/services/semantic_search, up to r.qdrant.Search: no vector
\* index, no query, or a search that fails ends the request.
SemanticSearch(q) ==
    /\ phase = "serving"
    /\ ApiIdle
    /\ IF ~ext.qdrant \/ q = <<>>
       THEN http' = Some([endpoint |-> "semantic", pc |-> "done",
                          body |-> [status |-> "BadRequest"]])
       ELSE IF ext.down
       THEN http' = Some([endpoint |-> "semantic", pc |-> "done",
                          body |-> [status |-> "InternalServerError"]])
       ELSE \E hits \in SearchHits(ext.points, MaxHits) :
                http' = Some([endpoint |-> "semantic", pc |-> "searched", query |-> q,
                              hits |-> hits])
    /\ UNCHANGED <<Registrations, apiRest>>

\* semanticSearchServices from r.mu.Lock() on: the projection of the hits.
SemanticProject ==
    /\ IF http = Nil THEN FALSE ELSE Deref(http).pc = "searched"
    /\ Registrations' = Lookup(Registrations,
                               {h.peer_id : h \in Range(Deref(http).hits)}, now)
    /\ LET results == Project(Deref(http).hits, Registrations)
       IN  http' = Some([endpoint |-> "semantic", pc |-> "done", hits |-> Deref(http).hits,
                         body |-> [status |-> "OK", query |-> Deref(http).query,
                                   results |-> results, count |-> Len(results)]])
    /\ UNCHANGED apiRest

\* GET /api/v1/registry/info: the host's id and addresses.
GetRegistryInfo ==
    /\ phase = "serving"
    /\ ApiIdle
    /\ http' = Some([endpoint |-> "info", pc |-> "done",
                     body |-> [status |-> "OK", peer_id |-> "registry"]])
    /\ UNCHANGED <<Registrations, apiRest>>

NextApi ==
    \/ Restore
    \/ \E req \in ApiFrames : RegisterBegin(1, LifePeer, req)
    \/ Heartbeat(1)
    \/ ReplayCheck(1)
    \/ Commit(1)
    \/ \E q \in Queries : Find(1, q)
    \/ \E req \in ApiFrames : OtherMethod(1, LifePeer, req)
    \/ Malformed(1)
    \/ Close(1)
    \/ GcPass
    \/ Elapse
    \/ GetAllServices
    \/ GetAllServicesFull
    \/ \E q \in Queries : SearchServices(q)
    \/ \E name \in Names : GetServiceByName(name)
    \/ \E q \in Queries : SemanticSearch(q)
    \/ SemanticProject
    \/ GetRegistryInfo

SpecApi == InitApi /\ [][NextApi]_vars

(***************************************************************************)
(* The two mutexes (SpecLocks): every Lock and Unlock of r.mu and of       *)
(* r.stakeMu is a step of its own, taken by a handleStream goroutine, by   *)
(* gcLoop, by a REST handler or by startRegistry, and so is every call of  *)
(* the durable store and of the vector index.  A Lock is enabled only      *)
(* while the mutex is free.  The replay guard is followed as data; what    *)
(* the handlers read under r.mu (is the peer registered, with which tx     *)
(* hash), the outcome of checkStakeValidity and whether a vector index is  *)
(* configured are free choices, so every branch of handleStream is taken.  *)
(***************************************************************************)
LockKeys == {ReplayKey(ProofA("p1")), ReplayKey(ProofB("p1"))}

LockMethods == {"register", "find", "status"}

\* What the lock steps leave alone.
lockRest == <<now, Registrations, ServiceIndex, streams, storage, redisReg, redisSvc,
              newOk, sv, ext, http, life, agent>>

\* The position of a thread that has taken r.mu, by the position it took it at.
HeldAt == [lookup |-> "lookupHeld", beat |-> "beatHeld", install |-> "installHeld",
           find |-> "findHeld"]

\* The positions a handler can be at after it releases r.mu: after the lookup
\* it is a heartbeat (only with a stake proof in the request) or it goes on to
\* checkStakeValidity; after the install it upserts into the vector index if
\* one is configured; after the other sections it answers.
AfterUnlock(pc, key) ==
    IF pc = "lookupHeld"
    THEN {"verify"} \cup (IF key # Nil THEN {"beat"} ELSE {})
    ELSE IF pc \in {"installHeld", "installSaved"} THEN {"upsert", "reply"}
    ELSE {"reply"}

\* The position of a handler that has called SaveRegistration in its section.
SavedAt == [beatHeld |-> "beatSaved", installHeld |-> "installSaved"]

\* The holder of r.stakeMu after a handler has claimed its key, were the
\* Unlock of line 383 deferred to the end of handleStream (sensitivity of C20).
GuardAfterClaimDeferred(t) == Some(t)

\* The holder of r.stakeMu after line 383: nobody.
GuardAfterClaim(t) == Nil

\* restoreStateFromRedis returns before its Lock: no store, or nothing to restore.
StartupSkip ==
    /\ phase = "starting"
    /\ lk.pc["main"] = "idle"
    /\ phase' = "serving"
    /\ lk' = [lk EXCEPT !.pc["main"] = "done"]
    /\ UNCHANGED <<seenStakeNonces, lockRest>>

\* restoreStateFromRedis: r.mu.Lock()
StartupLock ==
    /\ phase = "starting"
    /\ lk.pc["main"] = "idle"
    /\ lk.mu = Nil
    /\ lk' = [lk EXCEPT !.mu = Some("main"), !.pc["main"] = "restoring"]
    /\ UNCHANGED <<phase, seenStakeNonces, lockRest>>

\* restoreStateFromRedis: defer r.mu.Unlock(); then SetStreamHandler, go gcLoop().
StartupUnlock ==
    /\ lk.pc["main"] = "restoring"
    /\ lk.mu = Some("main")
    /\ phase' = "serving"
    /\ lk' = [lk EXCEPT !.mu = Nil, !.pc["main"] = "done"]
    /\ UNCHANGED <<seenStakeNonces, lockRest>>

\* handleStream: a request is decoded; key is the pair of its stake proof.
HandlerStart(t, method, key) ==
    /\ phase = "serving"
    /\ lk.pc[t] = "idle"
    /\ lk' = [lk EXCEPT !.pc[t] = CASE method = "register" -> "lookup"
                                    [] method = "find" -> "find"
                                    [] OTHER -> "reply",
                        !.key[t] = IF method = "register" THEN key ELSE Nil]
    /\ UNCHANGED <<phase, seenStakeNonces, lockRest>>

\* handleStream: r.mu.Lock() of the lookup, the heartbeat, the install, the find.
StateLock(t) ==
    /\ lk.pc[t] \in DOMAIN HeldAt
    /\ lk.mu = Nil
    /\ lk' = [lk EXCEPT !.mu = Some(t), !.pc[t] = HeldAt[lk.pc[t]]]
    /\ UNCHANGED <<phase, seenStakeNonces, lockRest>>

\* handleStream: the r.mu.Unlock() that ends each of these sections.
StateUnlock(t) ==
    /\ lk.pc[t] \in {HeldAt[k] : k \in DOMAIN HeldAt} \cup {SavedAt[k] : k \in DOMAIN SavedAt}
    /\ lk.mu = Some(t)
    /\ \E next \in AfterUnlock(lk.pc[t], lk.key[t]) :
           lk' = [lk EXCEPT !.mu = Nil, !.pc[t] = next]
    /\ UNCHANGED <<phase, seenStakeNonces, lockRest>>

\* handleStream: checkStakeValidity; a request without a proof fails it.
HandlerVerify(t) ==
    /\ lk.pc[t] = "verify"
    /\ \E valid \in BOOLEAN :
           lk' = [lk EXCEPT !.pc[t] = IF valid /\ lk.key[t] # Nil THEN "guard" ELSE "reply"]
    /\ UNCHANGED <<phase, seenStakeNonces, lockRest>>

\* handleStream: r.stakeMu.Lock()
GuardLock(t) ==
    /\ lk.pc[t] = "guard"
    /\ lk.stakeMu = Nil
    /\ lk' = [lk EXCEPT !.stakeMu = Some(t), !.pc[t] = "guardHeld"]
    /\ UNCHANGED <<phase, seenStakeNonces, lockRest>>

\* handleStream: the key is in the guard; r.stakeMu.Unlock(), error, break.
GuardReject(t) ==
    /\ lk.pc[t] = "guardHeld"
    /\ lk.stakeMu = Some(t)
    /\ SeenKey(seenStakeNonces, Deref(lk.key[t]))
    /\ lk' = [lk EXCEPT !.stakeMu = Nil, !.pc[t] = "reply"]
    /\ UNCHANGED <<phase, seenStakeNonces, lockRest>>

\* handleStream: r.seenStakeNonces[key] = true
GuardClaim(t) ==
    /\ lk.pc[t] = "guardHeld"
    /\ lk.stakeMu = Some(t)
    /\ ~SeenKey(seenStakeNonces, Deref(lk.key[t]))
    /\ seenStakeNonces' = seenStakeNonces \cup {Deref(lk.key[t])}
    /\ lk' = [lk EXCEPT !.pc[t] = "claimed"]
    /\ UNCHANGED <<phase, lockRest>>

\* handleStream: r.stakeMu.Unlock() after the claim; buildServiceEmbedding.
GuardUnlock(t) ==
    /\ lk.pc[t] = "claimed"
    /\ lk.stakeMu = Some(t)
    /\ lk' = [lk EXCEPT !.stakeMu = GuardAfterClaim(t), !.pc[t] = "install"]
    /\ UNCHANGED <<phase, seenStakeNonces, lockRest>>

\* handleStream: SaveRegistration in the heartbeat section (the peer still has
\* its record) or in the install section (the request has provider_info).
StoreSave(t) ==
    /\ storage
    /\ lk.pc[t] \in DOMAIN SavedAt
    /\ lk' = [lk EXCEPT !.pc[t] = SavedAt[lk.pc[t]]]
    /\ UNCHANGED <<phase, seenStakeNonces, lockRest>>

\* handleStream: r.qdrant.UpsertService
VectorUpsert(t) ==
    /\ lk.pc[t] = "upsert"
    /\ lk' = [lk EXCEPT !.pc[t] = "reply"]
    /\ UNCHANGED <<phase, seenStakeNonces, lockRest>>

\* handleStream: the request does not decode; return.
HandlerMalformed(t) ==
    /\ phase = "serving"
    /\ lk.pc[t] = "idle"
    /\ lk' = [lk EXCEPT !.pc[t] = "failed"]
    /\ UNCHANGED <<phase, seenStakeNonces, lockRest>>

\* handleStream: the response is encoded and flushed.
HandlerReply(t) ==
    /\ lk.pc[t] = "reply"
    /\ lk' = [lk EXCEPT !.pc[t] = "written"]
    /\ UNCHANGED <<phase, seenStakeNonces, lockRest>>

\* handleStream: defer stream.Close()
HandlerClose(t) ==
    /\ lk.pc[t] \in {"written", "failed"}
    /\ lk' = [lk EXCEPT !.pc[t] = "idle", !.key[t] = Nil]
    /\ UNCHANGED <<phase, seenStakeNonces, lockRest>>

\* gcLoop: r.mu.Lock() at a tick
GcLock ==
    /\ phase = "serving"
    /\ lk.pc["gc"] = "idle"
    /\ lk.mu = Nil
    /\ lk' = [lk EXCEPT !.mu = Some("gc"), !.pc["gc"] = "sweeping"]
    /\ UNCHANGED <<phase, seenStakeNonces, lockRest>>

\* gcLoop: DeleteRegistration for a record the sweep evicts
StoreDelete ==
    /\ storage
    /\ lk.pc["gc"] = "sweeping"
    /\ lk' = [lk EXCEPT !.pc["gc"] = "swept"]
    /\ UNCHANGED <<phase, seenStakeNonces, lockRest>>

\* gcLoop: r.mu.Unlock() after the sweep
GcUnlock ==
    /\ lk.pc["gc"] \in {"sweeping", "swept"}
    /\ lk.mu = Some("gc")
    /\ lk' = [lk EXCEPT !.mu = Nil, !.pc["gc"] = "idle"]
    /\ UNCHANGED <<phase, seenStakeNonces, lockRest>>

\* semanticSearchServices: r.qdrant.Search, before the Lock
VectorSearch ==
    /\ phase = "serving"
    /\ lk.pc["api"] = "idle"
    /\ lk' = [lk EXCEPT !.pc["api"] = "searched"]
    /\ UNCHANGED <<phase, seenStakeNonces, lockRest>>

\* A REST handler (getAllServices and the like): r.mu.Lock()
ApiLock ==
    /\ phase = "serving"
    /\ lk.pc["api"] \in {"idle", "searched"}
    /\ lk.mu = Nil
    /\ lk' = [lk EXCEPT !.mu = Some("api"), !.pc["api"] = "reading"]
    /\ UNCHANGED <<phase, seenStakeNonces, lockRest>>

\* A REST handler: defer r.mu.Unlock()
ApiUnlock ==
    /\ lk.pc["api"] = "reading"
    /\ lk.mu = Some("api")
    /\ lk' = [lk EXCEPT !.mu = Nil, !.pc["api"] = "idle"]
    /\ UNCHANGED <<phase, seenStakeNonces, lockRest>>

\* A store is configured: without one the calls of the store are never made,
\* and every other step is the same.
InitLocks ==
    /\ RegInit
    /\ storage
    /\ sv = SvIdle
    /\ ext = ExtNone /\ http = Nil /\ lk = LkFree
    /\ life = LifeStart
    /\ agent = AgentOff

NextLocks ==
    \/ StartupSkip
    \/ StartupLock
    \/ StartupUnlock
    \/ \E t \in Handlers, method \in LockMethods, key \in {Nil} \cup {Some(k) : k \in LockKeys} :
           HandlerStart(t, method, key)
    \/ \E t \in Handlers : StateLock(t)
    \/ \E t \in Handlers : StateUnlock(t)
    \/ \E t \in Handlers : HandlerVerify(t)
    \/ \E t \in Handlers : GuardLock(t)
    \/ \E t \in Handlers : GuardReject(t)
    \/ \E t \in Handlers : GuardClaim(t)
    \/ \E t \in Handlers : GuardUnlock(t)
    \/ \E t \in Handlers : StoreSave(t)
    \/ \E t \in Handlers : VectorUpsert(t)
    \/ \E t \in Handlers : HandlerMalformed(t)
    \/ \E t \in Handlers : HandlerReply(t)
    \/ \E t \in Handlers : HandlerClose(t)
    \/ GcLock
    \/ StoreDelete
    \/ GcUnlock
    \/ VectorSearch
    \/ ApiLock
    \/ ApiUnlock

SpecLocks == InitLocks /\ [][NextLocks]_vars

\* The steps a handler takes without waiting for a mutex, once its request is
\* decoded; every external call returns.
HandlerStep(t) ==
    \/ StateUnlock(t)
    \/ HandlerVerify(t)
    \/ GuardReject(t)
    \/ GuardClaim(t)
    \/ GuardUnlock(t)
    \/ VectorUpsert(t)
    \/ HandlerReply(t)
    \/ HandlerClose(t)

\* The scheduler runs every thread that can take a step, and sync.Mutex hands
\* the mutex to a waiter that has waited long enough (starvation mode), so a
\* thread that waits in Lock gets the mutex if it is released again and again.
\* Nothing obliges a peer to open a stream, a client to call the API or a
\* tick to find the mutex free.
FairLocks ==
    /\ \A t \in Handlers : WF_vars(HandlerStep(t))
    /\ \A t \in Handlers : SF_vars(StateLock(t))
    /\ \A t \in Handlers : SF_vars(GuardLock(t))
    /\ WF_vars(StartupUnlock)
    /\ WF_vars(GcUnlock)
    /\ WF_vars(ApiUnlock)
    /\ SF_vars(ApiLock /\ lk.pc["api"] = "searched")

SpecLocksFair == SpecLocks /\ FairLocks

(***************************************************************************)
(* The stdin/stdout agent (SpecAgent): a separate process that reads JSON  *)
(* values from stdin and writes one response per decoded request.  The     *)
(* daemon has written the whole input and closed the pipe.  A value on     *)
(* stdin is a request, a JSON value of another shape ("mistyped": the      *)
(* decoder reads it and reports a type error), text that is not JSON       *)
(* ("garbage": the decoder reports a syntax error and keeps it), or, as    *)
(* the last one, a value cut off by the end of the input ("truncated").    *)
(***************************************************************************)
\* Most values on stdin.
MaxInput == 2
\* The log lines of the agent are counted modulo this number.
LogWrap == 2

UpperChar(c) ==
    CASE c = "m" -> "M"
      [] c = "a" -> "A"
      [] c = "t" -> "T"
      [] c = "h" -> "H"
      [] c = "x" -> "X"
      [] OTHER -> c

\* strings.ToUpper
ToUpper(s) == [i \in 1..Len(s) |-> UpperChar(s[i])]

\* the rune swap loop of "reverse"
ReverseRunes(s) == [i \in 1..Len(s) |-> s[Len(s) + 1 - i]]

AgentMethods == {"uppercase", "reverse", "Uppercase", ""}
AgentParams == {<<>>, <<<<"m", "A">>>>, <<<<"a", "t">>, <<"h">>>>}
AgentIds == {0, 7}

AgentRequests ==
    {[kind |-> "request", Method |-> m, Params |-> ps, ID |-> id] :
         m \in AgentMethods, ps \in AgentParams, id \in AgentIds}

AgentValues == AgentRequests \cup {[kind |-> "mistyped"], [kind |-> "garbage"]}

RECURSIVE SeqsUpTo(_, _)
SeqsUpTo(S, n) ==
    IF n = 0 THEN {<<>>}
    ELSE LET shorter == SeqsUpTo(S, n - 1)
         IN  shorter \cup {Append(q, x) : q \in {r \in shorter : Len(r) = n - 1}, x \in S}

\* What the daemon wrote before it closed the pipe.
AgentInputs ==
    LET whole == SeqsUpTo(AgentValues, MaxInput)
    IN  whole \cup {Append(q, [kind |-> "truncated"]) :
                        q \in {r \in whole : Len(r) < MaxInput}}

\* The result of the default branch; strings are sequences of characters,
\* this one is kept whole.
UnknownResult == <<"unknown method">>

\* main, the switch on req.Method
Result(method, params) ==
    IF method = "uppercase"
    THEN (IF Len(params) > 0 THEN ToUpper(params[1]) ELSE <<>>)
    ELSE IF method = "reverse"
    THEN (IF Len(params) > 0 THEN ReverseRunes(params[1]) ELSE <<>>)
    ELSE UnknownResult

InitAgent ==
    /\ RegInit /\ ~storage
    /\ sv = SvIdle /\ ext = ExtNone /\ http = Nil /\ lk = LkFree /\ life = LifeStart
    /\ \E input \in AgentInputs :
           agent = [pc |-> "decode", stdin |-> input, err |-> "", req |-> <<>>,
                    decoded |-> <<>>, stdout |-> <<>>, logged |-> 0]

agentRest == <<regVars, sv, ext, http, lk, life>>

\* decoder.Decode returns nil: a request was read from stdin.
AgentDecode ==
    /\ agent.pc = "decode" /\ agent.err = ""
    /\ agent.stdin # <<>>
    /\ Head(agent.stdin).kind = "request"
    /\ agent' = [agent EXCEPT !.pc = "respond", !.stdin = Tail(@),
                              !.req = Some(Head(agent.stdin)),
                              !.decoded = Append(@, Head(agent.stdin))]
    /\ UNCHANGED agentRest

\* decoder.Decode read a whole JSON value that is not a request: the error
\* is logged, the value is gone and the loop goes on.
AgentSkip ==
    /\ agent.pc = "decode" /\ agent.err = ""
    /\ agent.stdin # <<>>
    /\ Head(agent.stdin).kind = "mistyped"
    /\ agent' = [agent EXCEPT !.stdin = Tail(@), !.logged = (@ + 1) % LogWrap]
    /\ UNCHANGED agentRest

\* decoder.Decode meets text that is not JSON, or the end of the input inside
\* a value: the decoder keeps the error, which is logged, and the loop goes on.
AgentFail ==
    /\ agent.pc = "decode" /\ agent.err = ""
    /\ agent.stdin # <<>>
    /\ Head(agent.stdin).kind \in {"garbage", "truncated"}
    /\ agent' = [agent EXCEPT
           !.err = IF Head(agent.stdin).kind = "garbage" THEN "invalid character"
                   ELSE "unexpected EOF",
           !.stdin = IF Head(agent.stdin).kind = "garbage" THEN @ ELSE Tail(@),
           !.logged = (@ + 1) % LogWrap]
    /\ UNCHANGED agentRest

\* decoder.Decode returns the error it kept, which is not "EOF": it is logged
\* and the loop goes on.
AgentSpin ==
    /\ agent.pc = "decode" /\ agent.err # ""
    /\ agent' = [agent EXCEPT !.logged = (@ + 1) % LogWrap]
    /\ UNCHANGED agentRest

\* decoder.Decode returns io.EOF: main returns.
AgentEOF ==
    /\ agent.pc = "decode" /\ agent.err = ""
    /\ agent.stdin = <<>>
    /\ agent' = [agent EXCEPT !.pc = "exited", !.err = "EOF"]
    /\ UNCHANGED agentRest

\* encoder.Encode(resp)
AgentRespond ==
    /\ agent.pc = "respond"
    /\ LET req == Deref(agent.req)
       IN  agent' = [agent EXCEPT
               !.pc = "decode",
               !.req = Nil,
               !.stdout = Append(@, [Result |-> Result(req.Method, req.Params),
                                     ID |-> req.ID])]
    /\ UNCHANGED agentRest

NextAgent ==
    \/ AgentDecode
    \/ AgentSkip
    \/ AgentFail
    \/ AgentSpin
    \/ AgentEOF
    \/ AgentRespond

SpecAgent == InitAgent /\ [][NextAgent]_vars

\* The agent is one goroutine that is always scheduled.
SpecAgentFair == SpecAgent /\ WF_vars(NextAgent)

(***************************************************************************)
(* Claims.                                                                 *)
(***************************************************************************)
Occurrences(list, pid) == Cardinality({i \in 1..Len(list) : list[i] = pid})

\* C1 (Invariant A): every peer with a record in the registrations map is listed
\* exactly once in the inverted index under the service name of its record.
C1_InvariantA ==
    \A pid \in DOMAIN Registrations :
        Occurrences(IndexList(ServiceIndex, Registrations[pid].ServiceCard.Name), pid) = 1

\* C2 (Invariant B): every peer listed in the inverted index under a name n has
\* a record in the registrations map whose service card name is n.
C2_InvariantB ==
    \A n \in DOMAIN ServiceIndex :
        \A pid \in Range(ServiceIndex[n]) :
            /\ pid \in DOMAIN Registrations
            /\ Registrations[pid].ServiceCard.Name = n

(***************************************************************************)
(* Register slots, as the claims below read them.                          *)
(***************************************************************************)
IsRegister(sl) == sl.pc # "idle" /\ sl.req.Method = "register"

\* The request passes checkStakeValidity for the peer that sent it.
ValidStake(sl) ==
    checkStakeValidity(sl.remotePeer, sl.req.StakeProof, PeerstorePubKey(sl.remotePeer)) = ErrNil

\* A register request that was classified as a new registration and whose
\* stake was verified.
NewPath(sl) == IsRegister(sl) /\ ~sl.isHeartbeat /\ ValidStake(sl)

KeyOf(sl) == ReplayKey(Deref(sl.req.StakeProof))

Answered(sl) == sl.pc = "done" /\ sl.resp # Nil

ReplayAnswer == Response(FALSE, <<>>, ErrReplay)

\* New registrations with the pair of sl that were answered success:true
\* before sl was answered.
EarlierNewOk(sl) ==
    Count(newOk, KeyOf(sl))
        - (IF ~sl.isHeartbeat /\ Answered(sl) /\ Deref(sl.resp).Success THEN 1 ELSE 0)

\* C3 as stated: once a register with a pair (tx_hash, nonce) has succeeded,
\* every later register with a valid stake proof of the same pair is answered
\* with the replay error.
C3_Original ==
    \A s \in Streams :
        LET sl == streams[s]
        IN  (IsRegister(sl) /\ ValidStake(sl) /\ Answered(sl) /\ EarlierNewOk(sl) >= 1)
                => Deref(sl.resp) = ReplayAnswer

\* C3 (amended): for each pair (tx_hash, nonce) at most one register handled as
\* a new registration is answered success:true, and a register with a valid
\* stake proof that is handled as a new registration after such a success is
\* answered with the replay error; a register handled as a heartbeat is never
\* answered with the replay error.
C3_Amended ==
    /\ \A k \in DOMAIN newOk : newOk[k] <= 1
    /\ \A s \in Streams :
        LET sl == streams[s]
        IN  /\ (NewPath(sl) /\ Answered(sl) /\ EarlierNewOk(sl) >= 1)
                    => Deref(sl.resp) = ReplayAnswer
            /\ (IsRegister(sl) /\ sl.isHeartbeat /\ Answered(sl))
                    => Deref(sl.resp).Error # ErrReplay

\* A second new registration with a pair that has already succeeded is
\* answered with the replay error.
C3_Witness ==
    \E s \in Streams :
        /\ NewPath(streams[s])
        /\ Answered(streams[s])
        /\ EarlierNewOk(streams[s]) = 1
        /\ Deref(streams[s].resp) = ReplayAnswer

\* The stream has passed the replay check.
Passed(sl) ==
    \/ sl.pc = "commit"
    \/ sl.pc = "done" /\ sl.resp # Nil /\ Deref(sl.resp).Success

\* C4: of the register streams in flight that are handled as new registrations
\* and carry the same pair (tx_hash, nonce), at most one has passed the replay
\* check, and one that has been answered without passing it carries the replay
\* error.
C4_AtMostOnePasses ==
    \A s1, s2 \in Streams :
        LET a == streams[s1]
            b == streams[s2]
        IN  (s1 # s2 /\ NewPath(a) /\ NewPath(b) /\ KeyOf(a) = KeyOf(b))
                => /\ ~(Passed(a) /\ Passed(b))
                   /\ (Passed(a) /\ b.pc = "done") => (b.resp # Nil /\ Deref(b.resp) = ReplayAnswer)

\* Two streams with the same pair are in flight: one has claimed the pair and
\* waits for the state mutex, the other has been answered with the replay error.
C4_Witness ==
    \E s1, s2 \in Streams :
        /\ s1 # s2
        /\ NewPath(streams[s1]) /\ NewPath(streams[s2])
        /\ KeyOf(streams[s1]) = KeyOf(streams[s2])
        /\ streams[s1].pc = "commit"
        /\ streams[s2].pc = "done"
        /\ Deref(streams[s2].resp) = ReplayAnswer

(***************************************************************************)
(* Find.                                                                   *)
(***************************************************************************)
IsFindAnswer(sl) == sl.pc = "done" /\ sl.req.Method = "find" /\ sl.resp # Nil

\* The records whose service name, lowercased, contains the lowercased query.
Matching(regs, query) ==
    {pid \in DOMAIN regs : Contains(ToLower(regs[pid].ServiceCard.Name), ToLower(query))}

\* C5: a find is answered success:true with exactly the addr_info of the
\* records whose service name, lowercased, contains the lowercased query.
C5_FindExact ==
    \A s \in Streams :
        LET sl == streams[s]
        IN  IsFindAnswer(sl)
                => /\ Deref(sl.resp).Success
                   /\ Range(Deref(sl.resp).Providers) =
                          {Registrations[pid].AddrInfo : pid \in Matching(Registrations, sl.req.Query)}

\* C6: while a peer holds the record that a successful register installed
\* under name n, a find whose query is a case-insensitive substring of n is
\* answered with a list that contains the addr_info of that record.
C6_RegisterThenFind ==
    \A s \in Streams :
        LET sl == streams[s]
        IN  IsFindAnswer(sl)
                => \A pid \in Matching(Registrations, sl.req.Query) :
                       Registrations[pid].AddrInfo \in Range(Deref(sl.resp).Providers)

(***************************************************************************)
(* The heartbeat discriminator and the heartbeat path.                     *)
(***************************************************************************)
\* The transaction hash of a stake proof that may be absent.
TxOf(proof) == IF proof = Nil THEN Nil ELSE Some(Deref(proof).TxHash)

\* Stream s reads a register request in this step.
Begins(s) ==
    streams[s].pc = "idle" /\ streams'[s].pc # "idle" /\ streams'[s].req.Method = "register"

\* C7: a register request is handled as a heartbeat iff the peer has a record,
\* the request carries a stake proof and its tx_hash equals that of the stored
\* proof; otherwise it is handled as a new registration: the stake is verified
\* (a failure is answered with the verifier's error) and only then does the
\* request reach the replay check, and only from the replay check the commit.
C7_Step ==
    \A s \in Streams :
        LET sl == streams'[s]
            p == sl.remotePeer
            hb == /\ p \in DOMAIN Registrations
                  /\ sl.req.StakeProof # Nil
                  /\ TxOf(sl.req.StakeProof) = TxOf(Registrations[p].StakeProof)
            err == checkStakeValidity(p, sl.req.StakeProof, PeerstorePubKey(p))
        IN  /\ Begins(s) =>
                /\ sl.isHeartbeat <=> hb
                /\ sl.pc = "heartbeat" <=> hb
                /\ (~hb /\ err # ErrNil) =>
                       (sl.pc = "done" /\ sl.resp = Some(Response(FALSE, <<>>, err)))
                /\ (~hb /\ err = ErrNil) => sl.pc = "replay"
            /\ (sl.pc = "replay" /\ streams[s].pc # "replay") => Begins(s)
            /\ (sl.pc = "commit" /\ streams[s].pc # "commit") =>
                   /\ streams[s].pc = "replay"
                   /\ KeyOf(sl) \in seenStakeNonces' \ seenStakeNonces

C7_Discriminator == [][C7_Step]_vars

\* A registered peer has two requests in flight: one with the transaction of
\* its record, taken as a heartbeat, and one with another transaction, sent to
\* the replay check after verification.
C7_Witness ==
    \E s1, s2 \in Streams :
        /\ streams[s1].pc = "heartbeat" /\ streams[s1].isHeartbeat
        /\ streams[s2].pc = "replay" /\ streams[s2].isRegistered
        /\ streams[s1].remotePeer = streams[s2].remotePeer
        /\ streams[s1].remotePeer \in DOMAIN Registrations
        /\ TxOf(streams[s2].req.StakeProof)
               # TxOf(Registrations[streams[s2].remotePeer].StakeProof)

\* Stream s leaves the heartbeat path in this step.
Beats(s) == streams[s].pc = "heartbeat" /\ streams'[s].pc = "done"

\* C8: a heartbeat leaves the inverted index, the replay guard, every other
\* peer's record and the card and proof of the sender's record unchanged; of
\* the sender's record it sets last_seen to now and, when the request supplies
\* provider_info, addr_info to it.
C8_Step ==
    \A s \in Streams :
        Beats(s) =>
            LET p == streams[s].remotePeer
                req == streams[s].req
            IN  /\ ServiceIndex' = ServiceIndex
                /\ seenStakeNonces' = seenStakeNonces
                /\ DOMAIN Registrations' = DOMAIN Registrations
                /\ \A q \in DOMAIN Registrations : q # p => Registrations'[q] = Registrations[q]
                /\ p \in DOMAIN Registrations =>
                    /\ Registrations'[p].ServiceCard = Registrations[p].ServiceCard
                    /\ Registrations'[p].StakeProof = Registrations[p].StakeProof
                    /\ Registrations'[p].LastSeen = now
                    /\ Registrations'[p].AddrInfo =
                           IF req.ProviderInfo # Nil THEN Deref(req.ProviderInfo)
                           ELSE Registrations[p].AddrInfo
                    /\ Deref(streams'[s].resp).Success

C8_HeartbeatFrame == [][C8_Step]_vars

\* A heartbeat with another service card and a new address was answered while
\* another peer is registered: the time and the address of the record are
\* those of the heartbeat, the name is not.
C8_Witness ==
    \E s \in Streams :
        LET sl == streams[s]
            p == sl.remotePeer
        IN  /\ sl.pc = "done" /\ sl.isHeartbeat
            /\ Deref(sl.resp).Success
            /\ p \in DOMAIN Registrations
            /\ sl.req.Card.Name # Registrations[p].ServiceCard.Name
            /\ sl.req.ProviderInfo # Nil
            /\ Registrations[p].AddrInfo = Deref(sl.req.ProviderInfo)
            /\ Registrations[p].AddrInfo # AddrInfoOf(p, "a1")
            /\ Registrations[p].LastSeen = now
            /\ now > 0
            /\ \E q \in DOMAIN Registrations : q # p

\* C9: a register request that is accepted on the heartbeat path presents the
\* stake of the stored record: the same amount, nonce and tx_hash.
C9_StakeChangeReverified ==
    \A s \in Streams :
        LET sl == streams[s]
        IN  (IsRegister(sl) /\ sl.isHeartbeat /\ Answered(sl) /\ Deref(sl.resp).Success)
                => LET old == Deref(Deref(sl.existing).StakeProof)
                       new == Deref(sl.req.StakeProof)
                   IN  /\ new.Amount = old.Amount
                       /\ new.Nonce = old.Nonce
                       /\ new.TxHash = old.TxHash

(***************************************************************************)
(* The stake verifier (specification SpecStake).                           *)
(***************************************************************************)
\* The signature of the proof is the peer's signature over the proof's payload.
SignatureVerifies(proof, pubKey) ==
    Deref(proof).Signature = SignBy(Deref(pubKey), Payload(Deref(proof)))

\* C10: checkStakeValidity returns on every input, and what it returns is the
\* error of the first check that fails, in the order: proof absent, amount
\* below the minimum, staker neither empty nor the remote peer, public key
\* unavailable, signature not verifying; it returns nil only when all pass.
C10_OrderedChecks ==
    sv.called =>
        LET absent == sv.proof = Nil
            low == Deref(sv.proof).Amount < minStake
            other == Deref(sv.proof).Staker \notin {"", PeerString(sv.remote)}
            nokey == sv.pubKey = Nil
            badsig == ~SignatureVerifies(sv.proof, sv.pubKey)
        IN  /\ sv.err \in {ErrNil, ErrStakeRequired, ErrStakeTooLow, ErrStakerMismatch,
                           ErrMissingPubkey, ErrVerifyFailed, ErrSignatureInvalid}
            /\ absent <=> sv.err = ErrStakeRequired
            /\ ~absent =>
                /\ low <=> sv.err = ErrStakeTooLow
                /\ (~low /\ other) <=> sv.err = ErrStakerMismatch
                /\ (~low /\ ~other /\ nokey) <=> sv.err = ErrMissingPubkey
                /\ (~low /\ ~other /\ ~nokey /\ badsig)
                       <=> sv.err \in {ErrVerifyFailed, ErrSignatureInvalid}
                /\ (~low /\ ~other /\ ~nokey /\ ~badsig) <=> sv.err = ErrNil

\* A proof that fails the amount check, the staker check and the signature
\* check, for a peer without a key, is reported as too low.
C10_Witness ==
    /\ sv.called
    /\ sv.proof # Nil
    /\ Deref(sv.proof).Amount < minStake
    /\ Deref(sv.proof).Staker \notin {"", PeerString(sv.remote)}
    /\ sv.pubKey = Nil
    /\ Deref(sv.proof).Signature = GarbageSignature
    /\ sv.err = ErrStakeTooLow

(***************************************************************************)
(* Rejected and record-less new registrations.                             *)
(***************************************************************************)
\* Stream s is answered in this step.
Answers(s) == streams[s].pc # "done" /\ Answered(streams'[s])

\* C11: a new registration that is rejected is answered success:false with a
\* non-empty error, and the step that rejects it leaves the registrations map,
\* the inverted index and the replay guard unchanged; a rejection by the
\* verifier happens before the replay check and carries the verifier's error,
\* a rejection by the replay check carries the replay error.
C11_Step ==
    \A s \in Streams :
        LET sl == streams'[s]
            err == checkStakeValidity(sl.remotePeer, sl.req.StakeProof,
                                      PeerstorePubKey(sl.remotePeer))
        IN  (Answers(s) /\ IsRegister(sl) /\ ~sl.isHeartbeat /\ ~Deref(sl.resp).Success)
                => /\ Deref(sl.resp).Error # ""
                   /\ Deref(sl.resp).Providers = <<>>
                   /\ Registrations' = Registrations
                   /\ ServiceIndex' = ServiceIndex
                   /\ seenStakeNonces' = seenStakeNonces
                   /\ \/ /\ streams[s].pc = "idle"
                         /\ err # ErrNil
                         /\ Deref(sl.resp).Error = err
                      \/ /\ streams[s].pc = "replay"
                         /\ err = ErrNil
                         /\ Deref(sl.resp).Error = ErrReplay
                         /\ KeyOf(sl) \in seenStakeNonces

C11_RejectionFrame == [][C11_Step]_vars

\* A registered peer presents another transaction with too small an amount:
\* the request is rejected by the verifier, its pair is not in the replay
\* guard and the peer's record and index entry are as they were.
C11_Witness ==
    \E s \in Streams :
        LET sl == streams[s]
            p == sl.remotePeer
        IN  /\ IsRegister(sl) /\ ~sl.isHeartbeat /\ Answered(sl)
            /\ Deref(sl.resp) = Response(FALSE, <<>>, ErrStakeTooLow)
            /\ KeyOf(sl) \notin seenStakeNonces
            /\ seenStakeNonces # {}
            /\ p \in DOMAIN Registrations
            /\ InList(IndexList(ServiceIndex, Registrations[p].ServiceCard.Name), p)

\* C15: a new registration that passes the verifier and the replay check and
\* carries no provider_info is answered success:true and the registrations map
\* is the same before and after the commit step.
C15_Step ==
    \A s \in Streams :
        (streams[s].pc = "commit" /\ streams'[s].pc = "done"
            /\ streams[s].req.ProviderInfo = Nil)
            => /\ Deref(streams'[s].resp) = Response(TRUE, <<>>, "")
               /\ Registrations' = Registrations

C15_NoProviderInfo == [][C15_Step]_vars

\* A peer that holds a record was answered success:true for a new registration
\* under another name without provider_info; its record is the old one.
C15_Witness ==
    \E s \in Streams :
        LET sl == streams[s]
            p == sl.remotePeer
        IN  /\ NewPath(sl) /\ Answered(sl) /\ Deref(sl.resp).Success
            /\ sl.req.ProviderInfo = Nil
            /\ p \in DOMAIN Registrations
            /\ Registrations[p].ServiceCard.Name # sl.req.Card.Name
            /\ Registrations[p].StakeProof # sl.req.StakeProof

(***************************************************************************)
(* Restore.                                                                *)
(***************************************************************************)
\* The process finishes its startup in this step.
Restores == phase = "starting" /\ phase' = "serving"

\* The age at time t of the record stored under a registration key.
StoredAge(reg, pid, t) == t - Unmarshal(reg[pid]).LastSeen

\* C16: restore puts in the registrations map exactly the records of the
\* durable store that are at most 90 s old at restore time, lists each of their
\* peers once under the service name of its record, and lists nothing else;
\* without a durable store nothing is restored.
C16_Step ==
    Restores =>
        LET kept == {pid \in DOMAIN redisReg : StoredAge(redisReg, pid, now) <= StaleAfter}
        IN  IF storage
            THEN /\ DOMAIN Registrations' = kept
                 /\ \A pid \in kept :
                        /\ Registrations'[pid] = Unmarshal(redisReg[pid])
                        /\ Occurrences(IndexList(ServiceIndex',
                                                 Registrations'[pid].ServiceCard.Name), pid) = 1
                 /\ \A n \in DOMAIN ServiceIndex' :
                        \A pid \in Range(ServiceIndex'[n]) :
                            pid \in kept /\ Registrations'[pid].ServiceCard.Name = n
            ELSE Registrations' = EmptyMap /\ ServiceIndex' = EmptyMap

Age(record) == now - record.LastSeen

\* C12: while the process serves, no step removes a record that is at most
\* 90 s old, and an eviction pass leaves such a record as it is; so a peer
\* whose heartbeats are applied less than 90 s apart is never evicted.
C12_Step ==
    (phase = "serving" /\ phase' = "serving") =>
        \A p \in DOMAIN Registrations :
            Age(Registrations[p]) <= StaleAfter =>
                /\ p \in DOMAIN Registrations'
                /\ GcSweep => Registrations'[p] = Registrations[p]

C12_KeepAlive == [][C12_Step]_vars

\* The record restored for the peer was 90 s old at the start; the peer has
\* sent heartbeats only, the last one a clock step ago, and the pass that has
\* just run, two clock steps after the start, kept its record and has evicted
\* the other peer.
C12_Witness ==
    /\ life.restarts = 0 /\ storage
    /\ seenStakeNonces = {}
    /\ now = 2 * LifeStep
    /\ LifePeer \in DOMAIN Registrations
    /\ Registrations[LifePeer].LastSeen = LifeStep
    /\ life.lastPass # Nil
    /\ Deref(life.lastPass).at = now
    /\ LifePeer \in Deref(life.lastPass).kept
    /\ \E e \in life.evicted : e[1] # LifePeer

\* The peer is listed in the index under some name.
Listed(index, p) == \E n \in DOMAIN index : InList(index[n], p)

\* C13: an eviction pass removes every record that is more than 90 s old from
\* the registrations map and its peer from the inverted index, and a find with
\* the empty query after the pass does not return its addr_info.
C13_Step ==
    GcSweep =>
        \A p \in DOMAIN Registrations :
            Age(Registrations[p]) > StaleAfter =>
                /\ p \notin DOMAIN Registrations'
                /\ ~Listed(ServiceIndex', p)
                /\ \A order \in Orders(DOMAIN ServiceIndex') :
                       Registrations[p].AddrInfo \notin
                           Range(FindResults(Registrations', ServiceIndex', <<>>, order))

C13_Eviction == [][C13_Step]_vars

\* C14: a register from a peer whose record was evicted, carrying the pair
\* with which a new registration succeeded in this lifetime, is answered with
\* the replay error and installs nothing; while the process serves, the replay
\* guard only grows.
C14_Step ==
    /\ \A s \in Streams :
        LET sl == streams'[s]
        IN  (/\ Answers(s)
             /\ NewPath(sl)
             /\ <<sl.remotePeer, KeyOf(sl)>> \in life.evicted
             /\ Count(newOk, KeyOf(sl)) >= 1)
                => /\ Deref(sl.resp) = ReplayAnswer
                   /\ Registrations' = Registrations
                   /\ ServiceIndex' = ServiceIndex
    /\ (phase = "serving" /\ phase' = "serving") => seenStakeNonces \subseteq seenStakeNonces'

C14_ReplayAfterEviction == [][C14_Step]_vars

\* Without a durable store: the peer registered, was evicted, and its register
\* with the same pair has been answered with the replay error; it has no record.
C14_Witness ==
    \E s \in Streams :
        LET sl == streams[s]
        IN  /\ ~storage /\ life.restarts = 0
            /\ NewPath(sl) /\ Answered(sl)
            /\ ~sl.isRegistered
            /\ Deref(sl.resp) = ReplayAnswer
            /\ <<sl.remotePeer, KeyOf(sl)>> \in life.evicted
            /\ Count(newOk, KeyOf(sl)) = 1
            /\ sl.remotePeer \notin DOMAIN Registrations

(***************************************************************************)
(* Restore as a function of the store.                                     *)
(***************************************************************************)
\* The registrations map restoreStateFromRedis builds from store reg at time t.
RestoredMap(reg, t) ==
    LET storageRecords == RestoreAllRegistrations(reg, t)
    IN  [pid \in DOMAIN storageRecords |-> convertFromStorageRecord(storageRecords[pid])]

\* The inverted indexes it can build, one for each order of iteration.
RestoredIndexes(reg, t) ==
    LET storageRecords == RestoreAllRegistrations(reg, t)
    IN  {IndexAll(EmptyMap, storageRecords, order) : order \in Orders(DOMAIN storageRecords)}

\* SaveRegistration of every record of regs into store reg.
RECURSIVE SaveAll(_, _, _)
SaveAll(reg, regs, pids) ==
    IF pids = {} THEN reg
    ELSE LET pid == CHOOSE x \in pids : TRUE
         IN  SaveAll(SaveReg(TRUE, reg, pid, convertToStorageRecord(regs[pid])),
                     regs, pids \ {pid})

FreshPart(regs, t) ==
    [pid \in {p \in DOMAIN regs : t - regs[p].LastSeen <= StaleAfter} |-> regs[pid]]

\* C18: with a durable store, the registrations map restored after a restart
\* holds exactly the records the stopped process had in memory that are at
\* most 90 s old, each with the same card, stake proof and addr_info.
C18_Step ==
    (Restores /\ storage /\ life.before # Nil)
        => Registrations' = FreshPart(Deref(life.before), now)

C18_SurvivesRestart == [][C18_Step]_vars

\* The restarted process holds, restored, the record the peer installed under
\* another name and another transaction in the first lifetime; the store still
\* holds a record that was skipped.
C18_Witness ==
    /\ storage /\ phase = "serving" /\ life.restarts = 1
    /\ seenStakeNonces = {}
    /\ LifePeer \in DOMAIN Registrations
    /\ Registrations[LifePeer].ServiceCard.Name = NameMath2
    /\ Registrations[LifePeer].StakeProof = Some(ProofB(LifePeer))
    /\ now - Registrations[LifePeer].LastSeen <= StaleAfter
    /\ (DOMAIN redisReg) \ (DOMAIN Registrations) # {}

\* C19: a restart leaves the replay guard empty and restore does not fill it,
\* so a new registration with a pair that the stopped process had claimed, and
\* that has not been claimed since the restart, passes the replay check and is
\* answered success:true.
C19_Step ==
    /\ (phase = "serving" /\ phase' = "starting") => seenStakeNonces' = {}
    /\ Restores => seenStakeNonces' = {}
    /\ \A s \in Streams :
        /\ (/\ streams[s].pc = "replay" /\ streams'[s].pc \notin {"replay", "idle"}
            /\ KeyOf(streams[s]) \in life.usedBefore
            /\ KeyOf(streams[s]) \notin seenStakeNonces)
               => streams'[s].pc = "commit"
        /\ (streams[s].pc = "commit" /\ streams'[s].pc = "done")
               => Deref(streams'[s].resp) = Response(TRUE, <<>>, "")

C19_GuardNotRestored == [][C19_Step]_vars

\* After a restart a peer without a restored record has been answered
\* success:true for a new registration with a pair the stopped process had
\* claimed, and holds the record that request installed.
C19_Witness ==
    \E s \in Streams :
        LET sl == streams[s]
            p == sl.remotePeer
        IN  /\ life.restarts = 1
            /\ NewPath(sl) /\ Answered(sl)
            /\ ~sl.isRegistered
            /\ KeyOf(sl) \in life.usedBefore
            /\ Deref(sl.resp).Success
            /\ p \in DOMAIN Registrations
            /\ Registrations[p].StakeProof = sl.req.StakeProof

\* C20: no thread holds r.stakeMu and r.mu at the same time, and a handler
\* that is about to take, or holds, r.mu for the install of a new registration
\* has claimed its key in the replay guard and has released r.stakeMu.
C20_LockDiscipline ==
    /\ \A t \in Threads : ~(lk.mu = Some(t) /\ lk.stakeMu = Some(t))
    /\ \A t \in Handlers :
           lk.pc[t] \in {"install", "installHeld"}
               => /\ lk.stakeMu # Some(t)
                  /\ lk.key[t] # Nil
                  /\ Deref(lk.key[t]) \in seenStakeNonces

\* One handler holds r.mu for its install while another holds r.stakeMu.
C20_Witness ==
    \E t, u \in Handlers :
        /\ t # u
        /\ lk.pc[t] = "installHeld"
        /\ lk.mu = Some(t)
        /\ lk.pc[u] = "guardHeld"
        /\ lk.stakeMu = Some(u)

\* C24: a register request that was classified as a heartbeat is answered
\* success:true, and the step that answers it sets last_seen of the sender's
\* record to the time of the step.
C24_Step ==
    \A s \in Streams :
        Beats(s) =>
            LET p == streams[s].remotePeer
            IN  /\ Deref(streams'[s].resp).Success
                /\ p \in DOMAIN Registrations'
                /\ Registrations'[p].LastSeen = now

C24_HeartbeatAdvances == [][C24_Step]_vars

(***************************************************************************)
(* The two query surfaces.                                                 *)
(***************************************************************************)
\* The addr_info a lookup by name yields: those getServiceByName returns, and
\* none when it answers "not found".
ByName(regs, index, name) ==
    LET body == getServiceByName(regs, index, name)
    IN  IF body.status = "OK" THEN Range(body.providers) ELSE {}

\* The addr_info the list of all services gives under a name.
Grouped(regs, order, name) == Range(IndexList(getAllServices(regs, order).services, name))

\* C30: in every state the list of all services, built from the registrations
\* map, gives under each name the addr_info that the lookups by the inverted
\* index give under it (exact name, substring search, find), and a find with
\* the empty query returns the addr_info of each registered peer exactly once.
C30_SurfacesAgree ==
    /\ \A name \in Names \cup DOMAIN ServiceIndex :
        \A order \in Orders(DOMAIN Registrations) :
            /\ Grouped(Registrations, order, name)
                   = ByName(Registrations, ServiceIndex, name)
            /\ \A seen \in Orders(DOMAIN ServiceIndex) :
                   Grouped(Registrations, order, name)
                       = Range(IndexList(searchServices(Registrations, ServiceIndex,
                                                        name, seen).services, name))
    /\ \A seen \in Orders(DOMAIN ServiceIndex) :
        \A pid \in DOMAIN Registrations :
            Occurrences(FindResults(Registrations, ServiceIndex, <<>>, seen),
                        Registrations[pid].AddrInfo) = 1

(***************************************************************************)
(* A heartbeat and a re-registration of one peer on two streams.           *)
(***************************************************************************)
\* The card, proof and addr_info of a record.
Content(rec) ==
    IF rec = Nil THEN Nil
    ELSE Some([ServiceCard |-> Deref(rec).ServiceCard, StakeProof |-> Deref(rec).StakeProof,
               AddrInfo |-> Deref(rec).AddrInfo])

\* The responses to two requests and the record after them, when the first is
\* served to its end before the second is read.
OneAfterTheOther(first, second) ==
    LET start == [rec |-> Some(RaceRecord), seen |-> RaceSeen]
        mid == Serve(start, RacePeer, first, now)
        end == Serve([rec |-> mid.rec, seen |-> mid.seen], RacePeer, second, now)
    IN  [first |-> mid.resp, second |-> end.resp, record |-> Content(end.rec)]

\* Slot h holds an answered heartbeat and slot r an answered register request
\* with a proof of another tx_hash, both read while the peer's record was the
\* one it had when the streams were opened.
HeartbeatAndReRegistration(h, r) ==
    /\ streams[h].pc = "closed" /\ streams[r].pc = "closed"
    /\ streams[h].isHeartbeat
    /\ ~streams[r].isHeartbeat
    /\ streams[r].req.StakeProof # Nil
    /\ TxOf(streams[r].req.StakeProof) # TxOf(streams[h].req.StakeProof)
    /\ streams[h].existing = Some(Existing(RaceRecord))
    /\ streams[r].existing = Some(Existing(RaceRecord))

RecordNow ==
    IF RacePeer \in DOMAIN Registrations THEN Content(Some(Registrations[RacePeer])) ELSE Nil

\* The outcome equals that of serving the heartbeat and then the
\* re-registration, or the re-registration and then the other request.
Linearized(h, r) ==
    LET hr == OneAfterTheOther(streams[h].req, streams[r].req)
        rh == OneAfterTheOther(streams[r].req, streams[h].req)
    IN  \/ /\ streams[h].resp = Some(hr.first)
           /\ streams[r].resp = Some(hr.second)
           /\ RecordNow = hr.record
        \/ /\ streams[r].resp = Some(rh.first)
           /\ streams[h].resp = Some(rh.second)
           /\ RecordNow = rh.record

\* C23: when a heartbeat and a re-registration with another tx_hash of the same
\* peer have been served on two streams, the two responses and the peer's
\* record (card, proof, addr_info) are those of serving the two requests one
\* after the other in one of the two orders, and Invariants A and B hold.
C23_Linearized ==
    \A h, r \in Streams :
        HeartbeatAndReRegistration(h, r)
            => /\ Linearized(h, r)
               /\ C1_InvariantA
               /\ C2_InvariantB

\* The same without the two invariants.
C23_OutcomeOnly ==
    \A h, r \in Streams : HeartbeatAndReRegistration(h, r) => Linearized(h, r)

(***************************************************************************)
(* External calls and the mutexes.                                         *)
(***************************************************************************)
\* Thread t calls the durable store (save, delete) or the vector index
\* (upsert, search) in this step.
CallsOut(t) ==
    \/ lk.pc[t] \in DOMAIN SavedAt /\ lk'.pc[t] = SavedAt[lk.pc[t]]
    \/ lk.pc[t] = "sweeping" /\ lk'.pc[t] = "swept"
    \/ lk.pc[t] = "upsert" /\ lk'.pc[t] = "reply"
    \/ lk.pc[t] = "idle" /\ lk'.pc[t] = "searched"

\* C21: no thread calls the durable store or the vector index while it holds
\* the state mutex.
C21_Step == \A t \in Threads : CallsOut(t) => lk.mu # Some(t)

C21_CallsOutsideMutex == [][C21_Step]_vars

\* The same for the vector index alone.
C21_VectorCallsOutside ==
    [][\A t \in Threads :
          (\/ lk.pc[t] = "upsert" /\ lk'.pc[t] = "reply"
           \/ lk.pc[t] = "idle" /\ lk'.pc[t] = "searched") => lk.mu # Some(t)]_vars

(***************************************************************************)
(* One request, one response.                                              *)
(***************************************************************************)
\* A response is written only by a handler that was about to answer, a
\* handler that has written one does nothing but close its stream, and a
\* handler whose request decoded ends only after it has written one.
OneResponse(t) ==
    /\ (lk.pc[t] # "written" /\ lk'.pc[t] = "written") => lk.pc[t] = "reply"
    /\ (lk.pc[t] = "written" /\ lk'.pc[t] # "written") => lk'.pc[t] = "idle"
    /\ (lk.pc[t] \notin {"idle", "failed"} /\ lk'.pc[t] = "idle") => lk.pc[t] = "written"

\* C29: a handler whose request decoded writes exactly one response and then
\* closes the stream, every handler with a decoded request gets that far, and
\* every thread that holds the state mutex or the replay-guard mutex releases
\* it (no thread waits forever for a mutex).
C29_OneResponse ==
    /\ [][\A t \in Handlers : OneResponse(t)]_vars
    /\ \A t \in Handlers : (lk.pc[t] \notin {"idle", "failed"}) ~> (lk.pc[t] = "written")
    /\ \A t \in Handlers : (lk.pc[t] = "written") ~> (lk.pc[t] = "idle")
    /\ \A t \in Threads : (lk.mu = Some(t)) ~> (lk.mu # Some(t))
    /\ \A t \in Handlers : (lk.stakeMu = Some(t)) ~> (lk.stakeMu # Some(t))

\* A handler has written its response although, while it was served, the
\* other handler held the replay-guard mutex and gcLoop the state mutex.
C29_Witness ==
    /\ lk.pc["h1"] = "written"
    /\ lk.key["h1"] # Nil
    /\ Deref(lk.key["h1"]) \in seenStakeNonces
    /\ lk.stakeMu = Some("h2")
    /\ lk.mu = Some("gc")

(***************************************************************************)
(* Failure isolation.                                                      *)
(***************************************************************************)
\* The calls of the store and of the vector index fail in this step.
CallsFail == storage /\ ext.qdrant /\ ext.down

\* C22: while the calls of the durable store and of the vector index fail, a
\* heartbeat of a registered peer is answered success:true and sets last_seen
\* (and addr_info, if supplied); a new registration that reaches the commit
\* is answered success:true, installs its record when it has provider_info
\* and lists the peer under the record's name; and an eviction pass removes
\* every stale record from the map and its peer from the index list of the
\* record's name.
C22_Step ==
    CallsFail =>
        /\ \A s \in Streams :
            LET sl == streams[s]
                p == sl.remotePeer
            IN  /\ (Beats(s) /\ p \in DOMAIN Registrations)
                       => /\ Deref(streams'[s].resp) = Response(TRUE, <<>>, "")
                          /\ Registrations'[p].LastSeen = now
                          /\ sl.req.ProviderInfo # Nil
                                 => Registrations'[p].AddrInfo = Deref(sl.req.ProviderInfo)
                /\ (sl.pc = "commit" /\ streams'[s].pc = "done")
                       => /\ Deref(streams'[s].resp) = Response(TRUE, <<>>, "")
                          /\ sl.req.ProviderInfo # Nil
                                 => /\ Registrations'[p] =
                                           Record(now, sl.req.Card, sl.req.StakeProof,
                                                  Deref(sl.req.ProviderInfo))
                                    /\ Occurrences(IndexList(ServiceIndex', sl.req.Card.Name),
                                                   p) = 1
        /\ GcSweep =>
            \A p \in DOMAIN Registrations :
                now - Registrations[p].LastSeen > StaleAfter
                    => /\ p \notin DOMAIN Registrations'
                       /\ ~InList(IndexList(ServiceIndex', Registrations[p].ServiceCard.Name), p)

C22_FailureIsolation == [][C22_Step]_vars

\* A new registration has been answered success:true and its record installed
\* while the store did not take the record and the vector index not the point.
C22_Witness ==
    \E s \in Streams :
        LET sl == streams[s]
            p == sl.remotePeer
        IN  /\ CallsFail
            /\ NewPath(sl) /\ Answered(sl) /\ Deref(sl.resp).Success
            /\ p \in DOMAIN Registrations
            /\ Registrations[p].StakeProof = sl.req.StakeProof
            /\ redisReg[p] # Marshal(convertToStorageRecord(Registrations[p]))
            /\ ext.points = {}

\* C25: a request whose method is neither "register" nor "find" is answered
\* success:false with error "Unknown method", and the registrations map, the
\* inverted index and the replay guard set are as before.
C25_Step(s) ==
    (/\ streams[s].pc = "idle"
     /\ streams'[s].pc # "idle"
     /\ ~Malformed(s)
     /\ streams'[s].req.Method \notin {"register", "find"})
    => /\ streams'[s].pc = "done"
       /\ streams'[s].resp = Some([Success |-> FALSE, Providers |-> <<>>,
                                   Error |-> "Unknown method"])
       /\ UNCHANGED <<Registrations, ServiceIndex, seenStakeNonces>>

C25_UnknownMethod == [][\A s \in Streams : C25_Step(s)]_vars

\* A register payload sent under the method "Register" has been answered
\* while the peer was registered.
C25_Witness ==
    /\ streams[1].pc = "done"
    /\ streams[1].req.Method = "Register"
    /\ streams[1].req.StakeProof # Nil
    /\ streams[1].resp # Nil
    /\ LifePeer \in DOMAIN Registrations

\* C26: a stream whose request does not decode is closed without a response
\* and without a change to the registrations map, the inverted index or the
\* replay guard set; nothing is written to it afterwards.
C26_Step(s) ==
    /\ Malformed(s)
       => /\ streams'[s].pc = "done"
          /\ streams'[s].resp = Nil
          /\ UNCHANGED <<Registrations, ServiceIndex, seenStakeNonces>>
    /\ (streams[s].pc = "done" /\ streams[s].resp = Nil)
       => (streams'[s] = streams[s] \/ streams'[s] = IdleSlot)

C26_MalformedSilent == [][\A s \in Streams : C26_Step(s)]_vars

\* A stream has ended without a response while the peer was registered.
C26_Witness ==
    /\ streams[1].pc = "done"
    /\ streams[1].resp = Nil
    /\ LifePeer \in DOMAIN Registrations
    /\ seenStakeNonces # {}

\* A find request is answered in this step.
FindStep(s) ==
    /\ streams[s].pc = "idle"
    /\ streams'[s].pc = "done"
    /\ streams'[s].req.Method = "find"

\* A REST request is served, or a semantic search goes on, in this step.
HttpStep ==
    IF http = Nil THEN http' # Nil
    ELSE IF http' = Nil THEN TRUE
    ELSE IF Deref(http').endpoint # Deref(http).endpoint THEN TRUE
    ELSE Deref(http') # Deref(http)

\* C27: find and every HTTP endpoint leave the registrations map, with every
\* record's last_seen, the inverted index and the replay guard set unchanged.
C27_Step ==
    (HttpStep \/ \E s \in Streams : FindStep(s))
    => UNCHANGED <<Registrations, ServiceIndex, seenStakeNonces>>

C27_QueriesReadOnly == [][C27_Step]_vars

\* A semantic search has returned a record whose last_seen is in the past.
C27_Witness ==
    /\ http # Nil
    /\ Deref(http).endpoint = "semantic"
    /\ Deref(http).pc = "done"
    /\ Deref(http).body.status = "OK"
    /\ Deref(http).body.count > 0
    /\ \E p \in DOMAIN Registrations : Registrations[p].LastSeen < now

\* The hit names a peer that has a record under the hit's service name.
Live(hit, regs) ==
    \E p \in DOMAIN regs :
        /\ hit.peer_id = PeerString(p)
        /\ regs[p].ServiceCard.Name = hit.service_name

\* The result is the hit's, with the card and address of the peer's record.
ResultOf(result, hit, regs) ==
    \E p \in DOMAIN regs :
        /\ hit.peer_id = PeerString(p)
        /\ hit.service_name = regs[p].ServiceCard.Name
        /\ result.service_name = hit.service_name
        /\ result.card = regs[p].ServiceCard
        /\ result.providers = <<regs[p].AddrInfo>>

\* C28: semantic search returns a result for a hit only if, at the projection,
\* the hit's peer has a record whose card name is the hit's service name; the
\* other hits are dropped, and count is the number of results.
C28_Step ==
    (/\ http # Nil
     /\ Deref(http).pc = "searched"
     /\ HttpStep)
    => LET hits == Deref(http).hits
           body == Deref(http').body
           kept == SelectSeq(hits, LAMBDA hit : Live(hit, Registrations))
       IN  /\ body.status = "OK"
           /\ body.count = Len(body.results)
           /\ Len(body.results) = Len(kept)
           /\ \A i \in 1..Len(kept) : ResultOf(body.results[i], kept[i], Registrations)

C28_SemanticLive == [][C28_Step]_vars

\* A search found the peer's point, the peer re-registered under another name
\* or was evicted, and the projection dropped the hit.
C28_Witness ==
    /\ http # Nil
    /\ Deref(http).endpoint = "semantic"
    /\ Deref(http).pc = "done"
    /\ Deref(http).body.status = "OK"
    /\ \E i \in 1..Len(Deref(http).hits) : Deref(http).hits[i].peer_id = PeerString(LifePeer)
    /\ Deref(http).body.count = 0

\* C31: while the store answers and no key expires, every peer id in the set
\* service:<name> has a stored record registration:<peer_id> whose service
\* card name is <name>.
C31_StoreIndexConsistent ==
    (storage /\ ~ext.down)
    => \A name \in DOMAIN redisSvc :
           \A pid \in redisSvc[name] :
               /\ pid \in DOMAIN redisReg
               /\ Unmarshal(redisReg[pid]).ServiceCard.Name = name

\* The response the agent owes to a request.
Owed(req) == [Result |-> Result(req.Method, req.Params), ID |-> req.ID]

\* C32, the responses: stdout holds one response per decoded request, in the
\* order of the requests, each with the id of its request and, for a method
\* other than "uppercase" and "reverse", the result "unknown method"; only the
\* request being served has no response yet.
C32_OneResponseEach ==
    /\ Len(agent.stdout) = Len(agent.decoded) - (IF agent.pc = "respond" THEN 1 ELSE 0)
    /\ \A i \in 1..Len(agent.stdout) :
           /\ agent.stdout[i].ID = agent.decoded[i].ID
           /\ agent.decoded[i].Method \notin {"uppercase", "reverse"}
                  => agent.stdout[i].Result = <<"unknown method">>
           /\ agent.stdout[i] = Owed(agent.decoded[i])

\* C32: the agent is purely reactive: every decoded request gets exactly one
\* response with its id, in request order, and the agent's loop ends when
\* stdin reaches EOF (the daemon has closed the pipe in every behaviour).
C32_EndsAtEOF == <>(agent.pc = "exited")

====
